---- MODULE Spec2Model ----
(***************************************************************************)
(* Field normalisation and template marker resolution of insurstar-ocr.    *)
(*                                                                         *)
(* Text is modelled character by character: a Python str is a sequence of  *)
(* one-character tokens.  A CJK character is written as its pinyin token   *)
(* ("nan" is U+7537, the male sign), the glyphs U+2611 and U+25A1 are the  *)
(* tokens "[x]" and "[ ]", and a blank is " ".                             *)
(*                                                                         *)
(* Seven components are modelled, each with its own specification:         *)
(*   SpecFill    WordTemplateFiller (archive/word_template_filler.py)      *)
(*   SpecOcr     WordTemplateProcessor.process_ocr_data                    *)
(*   SpecNorm    DataProcessor.format_amount (data_processor.py)           *)
(*   SpecData    DataProcessor.process_insurance_data and its formatters   *)
(*   SpecRender  template loading and rendering to files, with the upload  *)
(*               handler of app.py naming the output documents             *)
(*   SpecFont    WordTemplateProcessor.set_checkbox_font                   *)
(*   SpecClean   AutoCleanupManager (auto_cleanup_manager.py)              *)
(***************************************************************************)
EXTENDS Integers, Sequences, FiniteSets, TLC

VARIABLES
    template,        \* the template asset on disk (a document tree)
    document,        \* WordTemplateFiller.document: NoDocument or a tree
    field_map,       \* the dict given to fill_fields, in insertion order
    passes,          \* number of fill_fields calls made on the document
    ocr_data,        \* the record handed to process_ocr_data
    processed_data,  \* what process_ocr_data returned (NoResult before)
    ocr_outcome,     \* "idle", "returned" or "raised"
    lookups,         \* coverage lookups performed by the last call
    raw_amount,      \* the string handed to format_amount
    formatted,       \* the results of the format_amount calls, in order
    norm_pc,         \* "idle", "once" or "twice"
    raw_data,        \* the record handed to process_insurance_data
    insurance_data,  \* what process_insurance_data returned (NoResult before)
    data_outcome,    \* "idle", "returned" or "raised"
    files,           \* the file system: path -> content ("none" if absent)
    written,         \* the paths written since the processor was built
    asset_path,      \* the template path the processor was built with
    built,           \* "new", "built", or "failed" (__init__ raised)
    template_path,   \* WordTemplateProcessor.template_path
    loaded,          \* WordTemplateProcessor.document is not None
    loads,           \* number of load_template calls made
    clock,           \* wall clock, in ticks
    renders,         \* the renders under way: slot -> [pc, output_path]
    report,          \* the document set_checkbox_font opens
    extra_fields,    \* the extra_fields values handed to set_checkbox_font
    styled,          \* the document set_checkbox_font saved (NoResult before)
    config,          \* AutoCleanupManager.config["cleanup_rules"]
    store,           \* the files of the managed directories: [dir, age]
    removed,         \* the files the last cleanup call removed
    cleanup          \* the last cleanup call: [name, days_old]

fillVars == <<template, document, field_map, passes>>
ocrVars  == <<ocr_data, processed_data, ocr_outcome, lookups>>
normVars == <<raw_amount, formatted, norm_pc>>
dataVars == <<raw_data, insurance_data, data_outcome>>
renderVars ==
    <<files, written, asset_path, built, template_path, loaded, loads, clock,
      renders>>
fontVars == <<report, extra_fields, styled>>
cleanVars == <<config, store, removed, cleanup>>
vars     ==
    <<fillVars, ocrVars, normVars, dataVars, renderVars, fontVars, cleanVars>>

(***************************************************************************)
(* Bounds of the model.                                                    *)
(***************************************************************************)
MaxRuns   == 3   \* runs (text fragments) in the paragraph under study
MaxPasses == 2   \* fill_fields calls on one loaded document
MaxAmountLen == 5 \* characters of a format_amount input
MaxTextLen == 5  \* characters of a clean_text input
MaxLoads == 2    \* load_template calls on one processor
MaxRenders == 2  \* renders that can be under way at the same time
MaxClock == 3    \* ticks of the wall clock
TicksPerSecond == 2  \* clock ticks told apart within one second

(***************************************************************************)
(* str helpers.                                                            *)
(***************************************************************************)
\* s.startswith(p), written tag.startswith(concat) in the source
StartsWith(s, p) == Len(p) <= Len(s) /\ SubSeq(s, 1, Len(p)) = p

\* needle in s
Contains(s, needle) ==
    \E k \in 0..(Len(s) - Len(needle)) : SubSeq(s, k + 1, k + Len(needle)) = needle

RECURSIVE Join(_)
\* ''.join(texts)
Join(texts) == IF texts = <<>> THEN <<>> ELSE Head(texts) \o Join(Tail(texts))

RECURSIVE Flatten(_)
\* concatenation of a sequence of sequences (list of lists to one list)
Flatten(ss) == IF ss = <<>> THEN <<>> ELSE Head(ss) \o Flatten(Tail(ss))

\* all sequences over S of length 0..n
SeqUpTo(S, n) == UNION { [1..k -> S] : k \in 0..n }

(***************************************************************************)
(* Marker resolution: WordTemplateFiller.                                  *)
(***************************************************************************)
Marker(name) == <<"{", "{">> \o name \o <<"}", "}">>

TagA == Marker(<<"a">>)
TagB == Marker(<<"b">>)
TagC == Marker(<<"c">>)
ValueA == <<"V">>
ValueB == <<"W">>

NoDocument == [none |-> TRUE]

\* runs[i].text = str(value); runs[k].text = '' for k in range(i+1, j+1)
BlankRunsShort(runs, i, j, value) ==
    [k \in 1..Len(runs) |->
        IF k = i THEN value ELSE IF k > i /\ k < j THEN <<>> ELSE runs[k]]

\* the runs blanked up to the end of the paragraph: range(i+1, n)
BlankRunsToEnd(runs, i, j, value) ==
    [k \in 1..Len(runs) |-> IF k = i THEN value ELSE IF k > i THEN <<>> ELSE runs[k]]

BlankRuns(runs, i, j, value) ==
    [k \in 1..Len(runs) |->
        IF k = i THEN value ELSE IF k > i /\ k <= j THEN <<>> ELSE runs[k]]

RECURSIVE ReplaceFrom(_, _, _, _)
RECURSIVE ScanFrom(_, _, _, _, _, _)

\* a scan that ends with its first match
ScanFromFirstOnly(runs, tag, value, i, j, concat) ==
    LET c == concat \o runs[j] IN
    IF c = tag
        THEN BlankRuns(runs, i, j, value)
        ELSE IF ~StartsWith(tag, c)
            THEN ReplaceFrom(runs, tag, value, i + 1)
            ELSE IF j < Len(runs)
                THEN ScanFrom(runs, tag, value, i, j + 1, c)
                ELSE ReplaceFrom(runs, tag, value, i + 1)

\* a scan that goes on at run i + 1 after a match
ScanFromNextRun(runs, tag, value, i, j, concat) ==
    LET c == concat \o runs[j] IN
    IF c = tag
        THEN ReplaceFrom(BlankRuns(runs, i, j, value), tag, value, i + 1)
        ELSE IF ~StartsWith(tag, c)
            THEN ReplaceFrom(runs, tag, value, i + 1)
            ELSE IF j < Len(runs)
                THEN ScanFrom(runs, tag, value, i, j + 1, c)
                ELSE ReplaceFrom(runs, tag, value, i + 1)

\* the body of `for j in range(i, n)` at index j with the text gathered so far
ScanFrom(runs, tag, value, i, j, concat) ==
    LET c == concat \o runs[j] IN
    IF c = tag
        THEN ReplaceFrom(BlankRuns(runs, i, j, value), tag, value, j + 1)
        ELSE IF ~StartsWith(tag, c)
            THEN ReplaceFrom(runs, tag, value, i + 1)
            ELSE IF j < Len(runs)
                THEN ScanFrom(runs, tag, value, i, j + 1, c)
                ELSE ReplaceFrom(runs, tag, value, i + 1)

\* `while i < n` from index i (indices are 1-based here)
ReplaceFrom(runs, tag, value, i) ==
    IF i > Len(runs) THEN runs ELSE ScanFrom(runs, tag, value, i, i, <<>>)

\* _replace_tag_with_value(para, tag, value): the paragraph's runs afterwards
replace_tag_with_value(runs, tag, value) == ReplaceFrom(runs, tag, value, 1)

RECURSIVE FillParaFrom(_, _, _)
FillParaFrom(runs, fm, k) ==
    IF k > Len(fm) THEN runs
    ELSE FillParaFrom(replace_tag_with_value(runs, fm[k][1], fm[k][2]), fm, k + 1)

\* for tag, value in field_map.items(): self._replace_tag_with_value(para, ...)
FillPara(runs, fm) == FillParaFrom(runs, fm, 1)

FillParas(paras, fm) == [p \in 1..Len(paras) |-> FillPara(paras[p], fm)]

RECURSIVE FillParasTimes(_, _, _)
FillParasTimes(paras, fm, n) ==
    IF n = 0 THEN paras ELSE FillParasTimes(FillParas(paras, fm), fm, n - 1)

\* row.cells yields a horizontally merged cell once per grid column it spans,
\* so its paragraphs are processed `span` times; cell.paragraphs holds the
\* cell's own paragraphs only, the tables nested in the cell are not walked.
FillCell(cell, fm) ==
    [cell EXCEPT !.paragraphs = FillParasTimes(cell.paragraphs, fm, cell.span)]

FillRow(row, fm) == [c \in 1..Len(row) |-> FillCell(row[c], fm)]

FillTable(table, fm) == [r \in 1..Len(table) |-> FillRow(table[r], fm)]

\* fill_fields(field_map) on a loaded document
fill_fields(doc, fm) ==
    [body   |-> FillParas(doc.body, fm),
     tables |-> [t \in 1..Len(doc.tables) |-> FillTable(doc.tables[t], fm)]]

RECURSIVE FillFieldsTimes(_, _, _)
FillFieldsTimes(doc, fm, n) ==
    IF n = 0 THEN doc ELSE FillFieldsTimes(fill_fields(doc, fm), fm, n - 1)

(***************************************************************************)
(* Template documents of the model: one paragraph under study, placed in   *)
(* the body, in a table cell, in a merged cell, or in a table nested in a  *)
(* cell.                                                                   *)
(***************************************************************************)
Cell(paras, tables, span) == [paragraphs |-> paras, tables |-> tables, span |-> span]

OneCellTable(cell) == << << cell >> >>

Filler == << <<"x">>, TagB >>

Layouts == {"body", "cell", "merged", "nested"}

BuildDoc(layout, para) ==
    CASE layout = "body"   -> [body |-> <<para>>, tables |-> <<>>]
      [] layout = "cell"   -> [body |-> <<Filler>>,
                               tables |-> << OneCellTable(Cell(<<para>>, <<>>, 1)) >>]
      [] layout = "merged" -> [body |-> <<Filler>>,
                               tables |-> << OneCellTable(Cell(<<para>>, <<>>, 2)) >>]
      [] layout = "nested" -> [body |-> <<Filler>>,
                               tables |-> << OneCellTable(
                                   Cell(<<Filler>>,
                                        << OneCellTable(Cell(<<para>>, <<>>, 1)) >>,
                                        1)) >>]

LayoutOf(doc) ==
    IF doc.tables = <<>> THEN "body"
    ELSE LET c == doc.tables[1][1][1] IN
         IF c.tables # <<>> THEN "nested"
         ELSE IF c.span = 2 THEN "merged" ELSE "cell"

\* the paragraph under study
FocusPara(doc) ==
    CASE LayoutOf(doc) = "body"   -> doc.body[1]
      [] LayoutOf(doc) = "nested" -> doc.tables[1][1][1].tables[1][1][1].paragraphs[1]
      [] OTHER                    -> doc.tables[1][1][1].paragraphs[1]

\* run texts the paragraph under study is built from
Frags ==
    { <<>>, <<"x">>, TagA, TagB, TagC,
      <<"{", "{">>, <<"a", "}", "}">>, <<"{", "{", "a">>, <<"}", "}">>,
      <<"x">> \o TagA }

Tags(fm) == { fm[k][1] : k \in 1..Len(fm) }

ValueOf(fm, tag) == fm[CHOOSE k \in 1..Len(fm) : fm[k][1] = tag][2]

Scenarios ==
    { <<"body", 1>>, <<"body", 2>>, <<"body", 3>>,
      <<"cell", 1>>, <<"merged", 1>>, <<"nested", 1>>,
      <<"body", 4>>, <<"merged", 4>>, <<"body", 5>> }

FieldMapNo(n) ==
    CASE n = 1 -> << <<TagA, ValueA>>, <<TagB, ValueB>> >>
      [] n = 2 -> << <<TagB, ValueB>>, <<TagA, ValueA>> >>
      [] n = 3 -> << <<TagA, ValueA>> >>
      [] n = 4 -> << <<TagA, <<>>>> >>       \* a blank field
      [] n = 5 -> << <<TagA, <<"a">>>> >>    \* a value spelt with marker letters

(***************************************************************************)
(* Python values of an OCR record.  Absent stands for a key that is not in *)
(* the dict; it is never a value, dict.get turns it into the default.      *)
(***************************************************************************)
Str(s)      == [kind |-> "str",    s |-> s,    n |-> 0, items |-> <<>>]
Num(n)      == [kind |-> "num",    s |-> <<>>, n |-> n, items |-> <<>>]
List(items) == [kind |-> "list",   s |-> <<>>, n |-> 0, items |-> items]
None        == [kind |-> "None",   s |-> <<>>, n |-> 0, items |-> <<>>]
Absent      == [kind |-> "absent", s |-> <<>>, n |-> 0, items |-> <<>>]

\* U+7121 U+586B U+5BEB, the "unfilled" sentinel of the OCR output
Sentinel == <<"wu2", "tian", "xie">>

\* U+2611 and a blank; U+25A1
Checked   == <<"[x]", " ">>
Unchecked == <<"[ ]">>

\* what \s and str.strip() take for white space: blank, tab, newline and
\* the ideographic space U+3000
Whitespace == {" ", "\t", "\n", "ispace"}

RECURSIVE LStrip(_)
LStrip(s) == IF s # <<>> /\ Head(s) \in Whitespace THEN LStrip(Tail(s)) ELSE s

RECURSIVE RStrip(_)
RStrip(s) ==
    IF s # <<>> /\ s[Len(s)] \in Whitespace
        THEN RStrip(SubSeq(s, 1, Len(s) - 1)) ELSE s

\* str.strip()
Strip(s) == RStrip(LStrip(s))

\* bool(v)
Truthy(v) ==
    CASE v.kind = "str"  -> v.s # <<>>
      [] v.kind = "num"  -> v.n # 0
      [] v.kind = "list" -> v.items # <<>>
      [] OTHER           -> FALSE

Digit(n) == <<"0", "1", "2", "3", "4", "5", "6", "7", "8", "9">>[n + 1]

\* str(v) for the values of the model (numbers are 0..9, lists print opaquely)
PyStr(v) ==
    CASE v.kind = "str"  -> v
      [] v.kind = "num"  -> Str(<<Digit(v.n)>>)
      [] v.kind = "None" -> Str(<<"N", "o", "n", "e">>)
      [] OTHER           -> Str(<<"[", "]">>)

\* d.get(key, default)
Get(d, key, default) == IF d[key].kind = "absent" THEN default ELSE d[key]

\* the sentinel test without strip()
UnsentinelExact(v) ==
    IF v.kind = "str" /\ v.s = Sentinel THEN Str(<<>>) ELSE v

\* "" if isinstance(v, str) and v.strip() == sentinel else v
Unsentinel(v) ==
    IF v.kind = "str" /\ Strip(v.s) = Sentinel THEN Str(<<>>) ELSE v

Fields ==
    {"insured_person", "gender", "policyholder_gender", "relationship",
     "vehicle_type", "compulsory_insurance_period", "optional_insurance_period",
     "coverage_items"}

\* line 148: the record with every sentinel string turned into ''
Cleaned(d) == [f \in Fields |-> Unsentinel(d[f])]

\* lines 162-163, a field of field_mapping other than the two periods
BasicField(d, field) ==
    LET value == Get(d, field, Str(<<>>)) IN
    IF Truthy(value) THEN PyStr(value) ELSE Str(<<>>)

\* lines 156-160, the two period fields
PeriodField(d, field) ==
    LET value == Get(d, field, None) IN
    IF value = None THEN None ELSE PyStr(value)

Male   == <<"nan">>
Female == <<"nv">>

\* the comparison made on the stripped text
GenderTokensStripped(gender) ==
    IF gender.kind = "str" /\ Strip(gender.s) = Male THEN <<Checked, Unchecked>>
    ELSE IF gender.kind = "str" /\ Strip(gender.s) = Female
        THEN <<Unchecked, Checked>>
    ELSE <<Unchecked, Unchecked>>

\* lines 166-175 and 179-188: the pair (<x>_male, <x>_female)
GenderTokens(gender) ==
    IF gender = Str(Male) THEN <<Checked, Unchecked>>
    ELSE IF gender = Str(Female) THEN <<Unchecked, Checked>>
    ELSE <<Unchecked, Unchecked>>

Moto == <<"ji", "che">>

\* "x in vehicle_type" raises TypeError unless vehicle_type is a str
VehicleRaises(vehicle_type) == vehicle_type.kind # "str"

\* lines 193-198: the pair (vehicle_type_moto, vehicle_type_car)
VehicleTokens(vehicle_type) ==
    IF Contains(vehicle_type.s, Moto) THEN <<Checked, Unchecked>>
    ELSE <<Unchecked, Checked>>

\* lines 203-212: relationship_map, its keys in insertion order (key k is
\* mapped to the tag relationship_<k>)
relationship_map ==
    << <<"ben", "ren">>, <<"pei", "ou">>, <<"fu", "mu">>, <<"zi", "nv">>,
       <<"gu", "yong">>, <<"zu", "sun1">>, <<"zhai", "quan", "zhai", "wu4">>,
       <<"biao", "di4", "wu">> >>

\* lines 217-219: relationship_options (option k names CHECK_RELATIONSHIP_<k>)
relationship_options ==
    << <<"ben", "ren">>, <<"pei", "ou">>, <<"fu", "mu">>, <<"zi", "nv">>,
       <<"gu", "yong">>, <<"zu", "sun1">>, <<"zhai", "quan", "zhai", "wu4">>,
       <<"biao", "di4", "wu">> >>

\* containment in place of equality
RelationTokenFuzzy(relationship, rel) ==
    IF relationship.kind = "str" /\ Contains(rel, relationship.s)
        THEN Checked ELSE Unchecked

\* line 214 / line 222
RelationToken(relationship, rel) ==
    IF relationship = Str(rel) THEN Checked ELSE Unchecked

\* lines 231-232: "x not in [None, '']"
PeriodToken(period) ==
    IF period # None /\ period # Str(<<>>) THEN Checked ELSE Unchecked

\* no coercion of a blank echo
EchoAsIs(value) == value

\* lines 235-237: if not processed_data.get(field): processed_data[field] = glyph
Echo(value) == IF ~Truthy(value) THEN Str(Unchecked) ELSE value

(***************************************************************************)
(* Coverage lookups.  An item is [type, amount, sub_items]; item.get(k, '')*)
(* and item.get('sub_items', []) make an absent key equal to '' and [].    *)
(***************************************************************************)
Item(type, amount, subs) == [type |-> type, amount |-> amount, sub_items |-> subs]

CarDamage       == <<"che", "ti", "sun3", "shi", "bao", "xian">>
ThirdParty      == <<"di", "san", "ren", "shang", "hai", "ze", "ren4", "xian">>
PerPerson       == <<"mei", "yi1", "ge", "ren", "shang", "hai">>

\* `for item in coverage_items` with item.get(...) raises on None, on a
\* number, and on a non-empty str (its items are characters)
IterRaises(cov) ==
    \/ cov.kind \in {"None", "num"}
    \/ cov.kind = "str" /\ cov.s # <<>>

\* the type name compared for equality instead of searched
FirstAmountExact(items, substring) ==
    LET hits == { k \in DOMAIN items : items[k].type = substring } IN
    IF hits = {} THEN <<>>
    ELSE items[CHOOSE k \in hits : \A j \in hits : k <= j].amount

RECURSIVE FirstAmount(_, _)
\* amount of the first entry whose type name contains the substring, else ''
FirstAmount(items, substring) ==
    IF items = <<>> THEN <<>>
    ELSE IF Contains(Head(items).type, substring) THEN Head(items).amount
    ELSE FirstAmount(Tail(items), substring)

\* lines 243-247
find_car_damage_amount(items) == FirstAmount(items, CarDamage)

RECURSIVE find_third_party_personal_amount(_)
\* lines 248-254: every matching parent is searched in turn
find_third_party_personal_amount(items) ==
    IF items = <<>> THEN <<>>
    ELSE IF /\ Contains(Head(items).type, ThirdParty)
            /\ \E k \in 1..Len(Head(items).sub_items) :
                  Contains(Head(items).sub_items[k].type, PerPerson)
        THEN FirstAmount(Head(items).sub_items, PerPerson)
        ELSE find_third_party_personal_amount(Tail(items))

\* the third-party lookup left out
OptionalAmountOneLookup(compulsory, optional, coverage_items) ==
    IF Truthy(compulsory) /\ ~Truthy(optional)
        THEN [raised |-> FALSE, amount |-> <<>>, lookups |-> 0]
    ELSE IF Truthy(optional)
        THEN IF IterRaises(coverage_items)
            THEN [raised |-> TRUE, amount |-> <<>>, lookups |-> 1]
            ELSE [raised |-> FALSE,
                  amount |-> find_car_damage_amount(coverage_items.items),
                  lookups |-> 1]
    ELSE [raised |-> FALSE, amount |-> <<>>, lookups |-> 0]

\* the lookups made whenever the record is not one with the compulsory
\* period alone
OptionalAmountNoPeriod(compulsory, optional, coverage_items) ==
    IF Truthy(compulsory) /\ ~Truthy(optional)
        THEN [raised |-> FALSE, amount |-> <<>>, lookups |-> 0]
    ELSE IF IterRaises(coverage_items)
        THEN [raised |-> TRUE, amount |-> <<>>, lookups |-> 1]
        ELSE LET car_damage == find_car_damage_amount(coverage_items.items) IN
             IF car_damage # <<>>
                THEN [raised |-> FALSE, amount |-> car_damage, lookups |-> 1]
                ELSE [raised |-> FALSE,
                      amount |-> find_third_party_personal_amount(
                                     coverage_items.items),
                      lookups |-> 2]

\* the two periods taken for one another in the branch conditions
OptionalAmountSwapped(compulsory, optional, coverage_items) ==
    IF Truthy(optional) /\ ~Truthy(compulsory)
        THEN [raised |-> FALSE, amount |-> <<>>, lookups |-> 0]
    ELSE IF Truthy(compulsory)
        THEN IF IterRaises(coverage_items)
            THEN [raised |-> TRUE, amount |-> <<>>, lookups |-> 1]
            ELSE LET car_damage == find_car_damage_amount(coverage_items.items) IN
                 IF car_damage # <<>>
                    THEN [raised |-> FALSE, amount |-> car_damage, lookups |-> 1]
                    ELSE [raised |-> FALSE,
                          amount |-> find_third_party_personal_amount(
                                         coverage_items.items),
                          lookups |-> 2]
    ELSE [raised |-> FALSE, amount |-> <<>>, lookups |-> 0]

\* lines 239-266: [raised, amount, lookups]
OptionalAmount(compulsory, optional, coverage_items) ==
    IF Truthy(compulsory) /\ ~Truthy(optional)
        THEN [raised |-> FALSE, amount |-> <<>>, lookups |-> 0]
    ELSE IF Truthy(optional)
        THEN IF IterRaises(coverage_items)
            THEN [raised |-> TRUE, amount |-> <<>>, lookups |-> 1]
            ELSE LET car_damage == find_car_damage_amount(coverage_items.items) IN
                 IF car_damage # <<>>
                    THEN [raised |-> FALSE, amount |-> car_damage, lookups |-> 1]
                    ELSE [raised |-> FALSE,
                          amount |-> find_third_party_personal_amount(
                                         coverage_items.items),
                          lookups |-> 2]
    ELSE [raised |-> FALSE, amount |-> <<>>, lookups |-> 0]

\* lines 137-271: [raised, lookups, data]; data is the dict returned
process_ocr_data(ocr) ==
    LET d                  == Cleaned(ocr)
        gender             == Get(d, "gender", Str(<<>>))
        policyholder_gender == Get(d, "policyholder_gender", Str(<<>>))
        vehicle_type       == Get(d, "vehicle_type", Str(<<>>))
        relationship       == Get(d, "relationship", Str(<<>>))
        compulsory_period  == Get(d, "compulsory_insurance_period", None)
        optional_period    == Get(d, "optional_insurance_period", None)
        coverage_items     == Get(d, "coverage_items", List(<<>>))
        opt == OptionalAmount(compulsory_period, optional_period, coverage_items)
    IN
    IF VehicleRaises(vehicle_type)
        THEN [raised |-> TRUE, lookups |-> 0, data |-> [none |-> TRUE]]
    ELSE IF opt.raised
        THEN [raised |-> TRUE, lookups |-> opt.lookups, data |-> [none |-> TRUE]]
    ELSE [raised |-> FALSE, lookups |-> opt.lookups, data |->
        [insured_person |-> BasicField(d, "insured_person"),
         compulsory_insurance_period |->
             PeriodField(d, "compulsory_insurance_period"),
         optional_insurance_period |->
             PeriodField(d, "optional_insurance_period"),
         gender_male   |-> GenderTokens(gender)[1],
         gender_female |-> GenderTokens(gender)[2],
         gender        |-> Echo(gender),
         policyholder_gender_male   |-> GenderTokens(policyholder_gender)[1],
         policyholder_gender_female |-> GenderTokens(policyholder_gender)[2],
         policyholder_gender        |-> Echo(policyholder_gender),
         vehicle_type_moto |-> VehicleTokens(vehicle_type)[1],
         vehicle_type_car  |-> VehicleTokens(vehicle_type)[2],
         vehicle_type      |-> vehicle_type,
         relationship      |-> Echo(BasicField(d, "relationship")),
         relationship_n    |->
             [k \in 1..Len(relationship_map) |->
                 RelationToken(relationship, relationship_map[k])],
         CHECK_RELATIONSHIP |->
             [k \in 1..Len(relationship_options) |->
                 RelationToken(relationship, relationship_options[k])],
         CHECK_1 |-> Checked,
         CHECK_2 |-> Checked,
         check_compulsory_insurance_period |-> PeriodToken(compulsory_period),
         check_optional_insurance_period   |-> PeriodToken(optional_period),
         optional_insurance_amount   |-> opt.amount,
         compulsory_insurance_amount |-> <<>>]]

(***************************************************************************)
(* OCR records of the model.  One group of fields ranges over its whole    *)
(* value set while the other fields range over a small base set.           *)
(***************************************************************************)
PeriodText == <<"1", "1", "4", "nian">>
Wan        == "wan"
CarAmount  == <<"4", "0", ".", "2", Wan>>
PersonAmount   == <<"3", "0", "0", Wan>>
AccidentAmount == <<"6", "0", "0", Wan>>
PerAccident    == <<"mei", "yi1", "yi4", "wai", "shi4", "gu">>
Theft          == <<"qie", "dao", "sun3", "shi", "xian">>

CarItem(amt) == Item(CarDamage \o <<"yi3", "shi4">>, amt, <<>>)

ThirdPartyItem(subs) == Item(ThirdParty, <<>>, subs)

PersonSub   == Item(PerPerson, PersonAmount, <<>>)
AccidentSub == Item(PerAccident, AccidentAmount, <<>>)

GenderValues ==
    { Absent, None, Str(<<>>), Str(Sentinel), Str(Male), Str(Female),
      Str(<<" ">> \o Male), Str(<<"x">>) }

InsuredValues == { Absent, None, Str(<<>>), Str(Sentinel), Str(<<"wang">>) }

RelationshipValues ==
    { Str(relationship_options[k]) : k \in 1..Len(relationship_options) }
    \cup { Absent, None, Str(<<>>), Str(Sentinel), Str(<<"ben">>),
           Str(<<"ben", "ren", " ">>), Str(<<"zi">>) }

VehicleValues ==
    { Absent, None, Str(<<>>), Str(Sentinel), Str(Moto),
      Str(<<"zhong", "xing">> \o Moto), Str(<<"xiao", "ke", "che">>) }

PeriodValues ==
    { Absent, None, Str(<<>>), Str(Sentinel), Str(<<" ">> \o Sentinel),
      Str(<<" ">>), Str(PeriodText), Num(0) }

CoverageValues ==
    { Absent, None, Str(Sentinel), Str(<<"x">>),
      List(<<>>),
      List(<< CarItem(CarAmount) >>),
      List(<< CarItem(CarAmount), ThirdPartyItem(<<PersonSub, AccidentSub>>) >>),
      List(<< ThirdPartyItem(<<AccidentSub, PersonSub>>), CarItem(CarAmount) >>),
      List(<< CarItem(<<>>), ThirdPartyItem(<<PersonSub>>) >>),
      List(<< CarItem(<<>>), CarItem(CarAmount), ThirdPartyItem(<<PersonSub>>) >>),
      List(<< ThirdPartyItem(<<PersonSub, AccidentSub>>) >>),
      List(<< ThirdPartyItem(<<AccidentSub>>), ThirdPartyItem(<<PersonSub>>) >>),
      List(<< Item(Theft, PersonAmount, <<>>),
              ThirdPartyItem(<< Item(CarDamage, CarAmount, <<>>) >>) >>),
      List(<< Item(PerPerson, PersonAmount, <<>>) >>) }

Groups == {"gender", "relationship", "period"}

FieldValues(group, field) ==
    CASE field = "insured_person" ->
            IF group = "gender" THEN InsuredValues ELSE { Str(<<"wang">>) }
      [] field = "gender" ->
            IF group = "gender" THEN GenderValues ELSE { Str(Male), Absent }
      [] field = "policyholder_gender" ->
            IF group = "gender" THEN GenderValues ELSE { Str(Female) }
      [] field = "relationship" ->
            IF group = "relationship" THEN RelationshipValues
            ELSE { Str(relationship_options[4]), Str(Sentinel) }
      [] field = "vehicle_type" ->
            IF group = "relationship" THEN VehicleValues
            ELSE { Str(<<"xiao", "ke", "che">>) }
      [] field = "compulsory_insurance_period" ->
            IF group = "period" THEN PeriodValues ELSE { Str(<<>>) }
      [] field = "optional_insurance_period" ->
            IF group = "period" THEN PeriodValues
            ELSE { Str(PeriodText), Str(Sentinel) }
      [] field = "coverage_items" ->
            IF group = "period" THEN CoverageValues
            ELSE { List(<< CarItem(CarAmount),
                           ThirdPartyItem(<<PersonSub, AccidentSub>>) >>) }

OcrRecords(group) ==
    [insured_person      : FieldValues(group, "insured_person"),
     gender              : FieldValues(group, "gender"),
     policyholder_gender : FieldValues(group, "policyholder_gender"),
     relationship        : FieldValues(group, "relationship"),
     vehicle_type        : FieldValues(group, "vehicle_type"),
     compulsory_insurance_period :
         FieldValues(group, "compulsory_insurance_period"),
     optional_insurance_period :
         FieldValues(group, "optional_insurance_period"),
     coverage_items      : FieldValues(group, "coverage_items")]

(***************************************************************************)
(* Idle values of the components a specification does not exercise.        *)
(***************************************************************************)
NoResult == [none |-> TRUE]

IdleOcr ==
    /\ ocr_data = NoResult
    /\ processed_data = NoResult
    /\ ocr_outcome = "idle"
    /\ lookups = 0

IdleNorm ==
    /\ raw_amount = <<>>
    /\ formatted = <<>>
    /\ norm_pc = "idle"

IdleData ==
    /\ raw_data = NoResult
    /\ insurance_data = NoResult
    /\ data_outcome = "idle"

IdleRender ==
    /\ files = NoResult
    /\ written = {}
    /\ asset_path = <<>>
    /\ built = "new"
    /\ template_path = <<>>
    /\ loaded = FALSE
    /\ loads = 0
    /\ clock = 0
    /\ renders = <<>>

IdleFont ==
    /\ report = NoResult
    /\ extra_fields = <<>>
    /\ styled = NoResult

IdleClean ==
    /\ config = NoResult
    /\ store = {}
    /\ removed = {}
    /\ cleanup = NoResult

IdleFill ==
    /\ template = NoDocument
    /\ document = NoDocument
    /\ field_map = <<>>
    /\ passes = 0

InitFill ==
    /\ \E sc \in Scenarios, para \in SeqUpTo(Frags, MaxRuns) :
          /\ template = BuildDoc(sc[1], para)
          /\ field_map = FieldMapNo(sc[2])
    /\ document = NoDocument
    /\ passes = 0
    /\ IdleOcr
    /\ IdleNorm
    /\ IdleData
    /\ IdleRender
    /\ IdleFont
    /\ IdleClean

\* WordTemplateFiller.load_template
LoadTemplate ==
    /\ document = NoDocument
    /\ document' = template
    /\ UNCHANGED <<template, field_map, passes, ocrVars, normVars, dataVars, renderVars,
                   fontVars, cleanVars>>

\* WordTemplateFiller.fill_fields; raises RuntimeError when nothing is loaded
FillFields ==
    /\ document # NoDocument
    /\ passes < MaxPasses
    /\ document' = fill_fields(document, field_map)
    /\ passes' = passes + 1
    /\ UNCHANGED <<template, field_map, ocrVars, normVars, dataVars, renderVars,
                   fontVars, cleanVars>>

(***************************************************************************)
(* Reading a document: every paragraph of the tree, at every depth.        *)
(***************************************************************************)
\* the cells of a table, row by row
TableCells(table) == Flatten(table)

\* paragraphs of the cells of `tables`, the cells' own paragraphs only
CellParas(tables) ==
    Flatten([t \in 1..Len(tables) |->
        Flatten([c \in 1..Len(TableCells(tables[t])) |->
            TableCells(tables[t])[c].paragraphs])])

\* paragraphs of the tables nested in the cells of `tables`
NestedParas(tables) ==
    Flatten([t \in 1..Len(tables) |->
        Flatten([c \in 1..Len(TableCells(tables[t])) |->
            CellParas(TableCells(tables[t])[c].tables)])])

\* the paragraphs fill_fields walks: the body's and the top-level cells'
WalkedParas(doc) == doc.body \o CellParas(doc.tables)

AllParas(doc) == WalkedParas(doc) \o NestedParas(doc.tables)

\* positions at which `needle` occurs in text s
Occurrences(s, needle) ==
    { k \in 1..(Len(s) - Len(needle) + 1) : SubSeq(s, k, k + Len(needle) - 1) = needle }

OpenBraces == <<"{", "{">>

\* every '{{' of the text opens a marker that is a key of the field map
MarkersKnown(text, fm) ==
    \A k \in Occurrences(text, OpenBraces) :
        \E tag \in Tags(fm) :
            /\ k + Len(tag) - 1 <= Len(text)
            /\ SubSeq(text, k, k + Len(tag) - 1) = tag

\* the same template with another paragraph under study
WithFocus(doc, para) == BuildDoc(LayoutOf(doc), para)

\* the paragraph with runs a..b merged into one run
SingleFragment(para, a, b) ==
    SubSeq(para, 1, a - 1) \o << Join(SubSeq(para, a, b)) >>
        \o SubSeq(para, b + 1, Len(para))

\* text without a brace
Plain(text) == \A k \in 1..Len(text) : text[k] \notin {"{", "}"}

\* runs a..b of the paragraph spell a marker of the field map
SpellsMarker(para, a, b, fm) ==
    /\ a <= b
    /\ Join(SubSeq(para, a, b)) \in Tags(fm)

(***************************************************************************)
(* C1  Split-marker equivalence: when consecutive runs a..b of a paragraph *)
(* spell a marker m of the field map, the text of the paragraph after      *)
(* fill_fields equals the text obtained from the same template with m      *)
(* sitting in one run; and where the paragraph is one the engine walks and *)
(* the runs around m are plain text, the value stands where m stood.       *)
(***************************************************************************)
SplitMarkerEquivalence ==
    (document # NoDocument /\ passes >= 1) =>
        LET para == FocusPara(template)
            text == Join(FocusPara(document))
        IN  \A a, b \in 1..Len(para) :
                SpellsMarker(para, a, b, field_map) =>
                    /\ text = Join(FocusPara(FillFieldsTimes(
                                  WithFocus(template, SingleFragment(para, a, b)),
                                  field_map, passes)))
                    /\ ( /\ LayoutOf(template) # "nested"
                         /\ Plain(Join(SubSeq(para, 1, a - 1)))
                         /\ Plain(Join(SubSeq(para, b + 1, Len(para)))) )
                       => text = Join(SubSeq(para, 1, a - 1))
                                 \o ValueOf(field_map, Join(SubSeq(para, a, b)))
                                 \o Join(SubSeq(para, b + 1, Len(para)))

\* a marker cut into two non-empty runs between plain runs has been resolved
SplitMarkerResolved ==
    /\ document # NoDocument
    /\ passes >= 1
    /\ LayoutOf(template) = "cell"
    /\ FocusPara(template) = << <<"x">>, <<"{", "{">>, <<"a", "}", "}">> >>
    /\ FocusPara(document) = << <<"x">>, ValueA, <<>> >>

(***************************************************************************)
(* C2  Exhaustive resolution: after fill_fields has run with a field map   *)
(* holding every marker of the template (every '{{' of the template opens  *)
(* a marker of the map), no paragraph of the body or of a table cell       *)
(* contains '{{', however the text is divided into runs.                   *)
(***************************************************************************)
ExhaustiveResolution ==
    ( /\ document # NoDocument
      /\ passes >= 1
      /\ \A p \in 1..Len(AllParas(template)) :
            MarkersKnown(Join(AllParas(template)[p]), field_map) )
    => \A p \in 1..Len(WalkedParas(document)) :
            ~Contains(Join(WalkedParas(document)[p]), OpenBraces)

NextFill == LoadTemplate \/ FillFields

SpecFill == InitFill /\ [][NextFill]_vars

(***************************************************************************)
(* WordTemplateProcessor.process_ocr_data as a state machine.              *)
(***************************************************************************)
InitOcr ==
    /\ \E group \in Groups : ocr_data \in OcrRecords(group)
    /\ processed_data = NoResult
    /\ ocr_outcome = "idle"
    /\ lookups = 0
    /\ IdleFill
    /\ IdleNorm
    /\ IdleData
    /\ IdleRender
    /\ IdleFont
    /\ IdleClean

\* one call of process_ocr_data on the record
ProcessOcrData ==
    /\ ocr_outcome = "idle"
    /\ LET r == process_ocr_data(ocr_data) IN
          /\ processed_data' = r.data
          /\ ocr_outcome' = IF r.raised THEN "raised" ELSE "returned"
          /\ lookups' = r.lookups
    /\ UNCHANGED <<ocr_data, fillVars, normVars, dataVars, renderVars,
                   fontVars, cleanVars>>

NextOcr == ProcessOcrData

SpecOcr == InitOcr /\ [][NextOcr]_vars

(***************************************************************************)
(* Claims about process_ocr_data.                                          *)
(***************************************************************************)
Returned == ocr_outcome = "returned"

\* a raw period (or echo field) value that is missing, null, empty or the
\* sentinel, the sentinel being recognised with blanks around it
Blank(v) ==
    \/ v.kind \in {"absent", "None"}
    \/ v.kind = "str" /\ (v.s = <<>> \/ Strip(v.s) = Sentinel)

\* a raw value that is a string with content other than the sentinel
Present(v) == v.kind = "str" /\ v.s # <<>> /\ Strip(v.s) # Sentinel

SelectedN == { k \in 1..8 : processed_data.relationship_n[k] = Checked }
SelectedCheck == { k \in 1..8 : processed_data.CHECK_RELATIONSHIP[k] = Checked }

(***************************************************************************)
(* C3  Relationship exclusivity: when the raw relationship is one of the   *)
(* eight category strings, exactly the relationship_<k> token and the      *)
(* CHECK_RELATIONSHIP_<category> token of that category are selected and   *)
(* the fourteen others are unselected; for any other raw value all sixteen *)
(* are unselected.                                                         *)
(***************************************************************************)
RelationshipExclusivity ==
    Returned =>
        /\ \A k \in 1..8 :
              /\ processed_data.relationship_n[k] \in {Checked, Unchecked}
              /\ processed_data.CHECK_RELATIONSHIP[k] \in {Checked, Unchecked}
        /\ \A c \in 1..8 :
              ocr_data.relationship = Str(relationship_options[c]) =>
                  /\ SelectedN = {c}
                  /\ SelectedCheck = {c}
                  /\ relationship_map[c] = relationship_options[c]
        /\ (\A c \in 1..8 : ocr_data.relationship # Str(relationship_options[c]))
              => SelectedN = {} /\ SelectedCheck = {}

\* the record's relationship is the fourth category and token 4 is selected
RelationshipChildSelected ==
    /\ Returned
    /\ ocr_data.relationship = Str(<<"zi", "nv">>)
    /\ processed_data.relationship_n[4] = Checked
    /\ processed_data.CHECK_RELATIONSHIP[4] = Checked

\* the trailing unit character of an amount removed
StripUnit(s) ==
    IF s # <<>> /\ s[Len(s)] = Wan THEN SubSeq(s, 1, Len(s) - 1) ELSE s

IsCarItem(item) == Contains(item.type, CarDamage) /\ item.amount # <<>>

IsThirdPartyItem(item) ==
    /\ Contains(item.type, ThirdParty)
    /\ \E k \in 1..Len(item.sub_items) :
          Contains(item.sub_items[k].type, PerPerson)

(***************************************************************************)
(* C4  Coverage fallback, optional period only: with the optional period   *)
(* present, the compulsory period absent and coverage_items holding a      *)
(* vehicle-damage item with an amount and a third-party item with a        *)
(* per-person sub-item, optional_insurance_amount is the vehicle-damage    *)
(* amount without its trailing unit character.                             *)
(***************************************************************************)
OptionalOnlyAmountStripped ==
    ( /\ Returned
      /\ Present(ocr_data.optional_insurance_period)
      /\ Blank(ocr_data.compulsory_insurance_period)
      /\ ocr_data.coverage_items.kind = "list"
      /\ \E k \in 1..Len(ocr_data.coverage_items.items) :
            IsCarItem(ocr_data.coverage_items.items[k])
      /\ \E k \in 1..Len(ocr_data.coverage_items.items) :
            IsThirdPartyItem(ocr_data.coverage_items.items[k]) )
    => LET items == ocr_data.coverage_items.items
           first == CHOOSE k \in 1..Len(items) :
                        /\ IsCarItem(items[k])
                        /\ \A j \in 1..(k - 1) : ~IsCarItem(items[j])
       IN  processed_data.optional_insurance_amount = StripUnit(items[first].amount)

(***************************************************************************)
(* C5  Mandatory period only: with the compulsory period present and the   *)
(* optional period missing, empty or the sentinel, no coverage lookup is   *)
(* made and optional_insurance_amount is '' whatever coverage_items is.    *)
(***************************************************************************)
MandatoryOnlyNoAmount ==
    ( /\ ocr_outcome # "idle"
      /\ Present(ocr_data.compulsory_insurance_period)
      /\ Blank(ocr_data.optional_insurance_period) )
    => /\ lookups = 0
       /\ Returned
       /\ processed_data.optional_insurance_amount = <<>>

\* compulsory period only, over a coverage list that holds both amounts
MandatoryOnlyReached ==
    /\ Returned
    /\ ocr_data.compulsory_insurance_period = Str(PeriodText)
    /\ ocr_data.optional_insurance_period = Str(Sentinel)
    /\ ocr_data.coverage_items =
           List(<< CarItem(CarAmount), ThirdPartyItem(<<PersonSub, AccidentSub>>) >>)
    /\ processed_data.optional_insurance_amount = <<>>

PeriodFields == {"compulsory_insurance_period", "optional_insurance_period"}

CheckOf(field) ==
    IF field = "compulsory_insurance_period"
        THEN processed_data.check_compulsory_insurance_period
        ELSE processed_data.check_optional_insurance_period

PeriodTokenTestForm ==
    Returned =>
        \A f \in PeriodFields :
            CheckOf(f) = IF Truthy(ocr_data[f]) THEN Checked ELSE Unchecked

(***************************************************************************)
(* C8 as stated: the echoes gender, policyholder_gender, relationship and  *)
(* vehicle_type are never the empty string, and are the placeholder glyph  *)
(* whenever the raw value is missing, empty or the sentinel.               *)
(***************************************************************************)
EchoNeverEmptyFour ==
    Returned =>
        \A f \in {"gender", "policyholder_gender", "relationship", "vehicle_type"} :
            /\ processed_data[f] # Str(<<>>)
            /\ Blank(ocr_data[f]) => processed_data[f] = Str(Unchecked)

(***************************************************************************)
(* C8 amended: the echoes gender, policyholder_gender and relationship are *)
(* never the empty string and are the placeholder glyph whenever the raw   *)
(* value is missing, empty or the sentinel; vehicle_type is not coerced,   *)
(* its echo is the empty string in those cases.                            *)
(***************************************************************************)
EchoNeverEmptyThree ==
    Returned =>
        /\ \A f \in {"gender", "policyholder_gender", "relationship"} :
              /\ processed_data[f] # Str(<<>>)
              /\ Blank(ocr_data[f]) => processed_data[f] = Str(Unchecked)
              /\ Present(ocr_data[f]) => processed_data[f] = ocr_data[f]
        /\ Blank(ocr_data.vehicle_type) => processed_data.vehicle_type = Str(<<>>)

\* a missing gender echoed as the glyph beside an empty vehicle_type echo
BlankEchoReached ==
    /\ Returned
    /\ ocr_data.gender = Absent
    /\ ocr_data.relationship = Str(Sentinel)
    /\ ocr_data.vehicle_type = Str(<<>>)
    /\ processed_data.gender = Str(Unchecked)
    /\ processed_data.relationship = Str(Unchecked)
    /\ processed_data.vehicle_type = Str(<<>>)

GenderPair(x) ==
    IF x = "gender"
        THEN <<processed_data.gender_male, processed_data.gender_female>>
        ELSE <<processed_data.policyholder_gender_male,
               processed_data.policyholder_gender_female>>

(***************************************************************************)
(* C9  Gender tokens: for gender and for policyholder_gender the pair      *)
(* (male, female) is (selected, unselected) when the raw value is exactly  *)
(* the male sign, (unselected, selected) when it is exactly the female     *)
(* sign, (unselected, unselected) otherwise; each pair depends on its own  *)
(* raw value only and is never (selected, selected).                       *)
(***************************************************************************)
GenderTokensThreeWay ==
    Returned =>
        \A x \in {"gender", "policyholder_gender"} :
            /\ GenderPair(x) # <<Checked, Checked>>
            /\ GenderPair(x) =
                  IF ocr_data[x] = Str(Male) THEN <<Checked, Unchecked>>
                  ELSE IF ocr_data[x] = Str(Female) THEN <<Unchecked, Checked>>
                  ELSE <<Unchecked, Unchecked>>

\* a male insured with a female policyholder, and the reverse pairing of a
\* blank-padded value
GenderBothReached ==
    /\ Returned
    /\ ocr_data.gender = Str(Male)
    /\ ocr_data.policyholder_gender = Str(Female)
    /\ processed_data.gender_male = Checked
    /\ processed_data.policyholder_gender_female = Checked
    /\ processed_data.policyholder_gender_male = Unchecked

(***************************************************************************)
(* DataProcessor.format_amount.                                            *)
(***************************************************************************)
Digits == {"0", "1", "2", "3", "4", "5", "6", "7", "8", "9"}

DigitValue(c) == CHOOSE n \in 0..9 : Digit(n) = c

RECURSIVE OnlyDigits(_)
\* re.sub(r'[^\d]', '', amount)
OnlyDigits(s) ==
    IF s = <<>> THEN <<>>
    ELSE IF Head(s) \in Digits THEN <<Head(s)>> \o OnlyDigits(Tail(s))
    ELSE OnlyDigits(Tail(s))

RECURSIVE ToInt(_)
\* int(cleaned) of a non-empty digit string
ToInt(ds) ==
    IF ds = <<>> THEN 0
    ELSE 10 * ToInt(SubSeq(ds, 1, Len(ds) - 1)) + DigitValue(ds[Len(ds)])

RECURSIVE ToDigits(_)
\* str(num) for num >= 0
ToDigits(num) ==
    IF num < 10 THEN <<Digit(num)>>
    ELSE ToDigits(num \div 10) \o <<Digit(num % 10)>>

RECURSIVE Grouped(_)
\* a digit string with a comma before every group of three from the right
Grouped(ds) ==
    IF Len(ds) <= 3 THEN ds
    ELSE Grouped(SubSeq(ds, 1, Len(ds) - 3)) \o <<",">>
             \o SubSeq(ds, Len(ds) - 2, Len(ds))

\* str(num): the separators left out
RenderPlain(num) == ToDigits(num)

\* f"{num:,}"
RenderThousands(num) == Grouped(ToDigits(num))

\* lines 59-83
format_amount(amount_str) ==
    IF amount_str = <<>> THEN <<>>
    ELSE LET cleaned == OnlyDigits(amount_str) IN
         IF cleaned # <<>> THEN RenderThousands(ToInt(cleaned)) ELSE amount_str

AmountChars == {"0", "1", "7", ",", "x"}

InitNorm ==
    /\ raw_amount \in SeqUpTo(AmountChars, MaxAmountLen)
    /\ formatted = <<>>
    /\ norm_pc = "idle"
    /\ IdleFill
    /\ IdleOcr
    /\ IdleData
    /\ IdleRender
    /\ IdleFont
    /\ IdleClean

\* a caller normalises the raw amount
FormatAmount ==
    /\ norm_pc = "idle"
    /\ formatted' = << format_amount(raw_amount) >>
    /\ norm_pc' = "once"
    /\ UNCHANGED <<raw_amount, fillVars, ocrVars, dataVars, renderVars,
                   fontVars, cleanVars>>

\* the normalised amount is normalised again (a record processed twice)
FormatAmountAgain ==
    /\ norm_pc = "once"
    /\ formatted' = Append(formatted, format_amount(formatted[1]))
    /\ norm_pc' = "twice"
    /\ UNCHANGED <<raw_amount, fillVars, ocrVars, dataVars, renderVars,
                   fontVars, cleanVars>>

NextNorm == FormatAmount \/ FormatAmountAgain

SpecNorm == InitNorm /\ [][NextNorm]_vars

\* the n-th comma-separated group of s, and the number of groups
RECURSIVE Groups3(_, _)
Groups3(s, acc) ==
    IF s = <<>> THEN <<acc>>
    ELSE IF Head(s) = "," THEN <<acc>> \o Groups3(Tail(s), <<>>)
    ELSE Groups3(Tail(s), Append(acc, Head(s)))

\* digits grouped by commas: 1-3 digits, then groups of exactly three, no
\* leading zero except for the amount 0 itself
ThousandsSeparated(s) ==
    LET g == Groups3(s, <<>>) IN
    /\ s # <<>>
    /\ \A k \in 1..Len(g) : \A i \in 1..Len(g[k]) : g[k][i] \in Digits
    /\ Len(g[1]) \in 1..3
    /\ \A k \in 2..Len(g) : Len(g[k]) = 3
    /\ g[1][1] = "0" => s = <<"0">>

(***************************************************************************)
(* C10  Amount normalisation is idempotent: an amount that is already      *)
(* thousands-separated is returned unchanged, and for every string x       *)
(* format_amount(format_amount(x)) = format_amount(x).                     *)
(***************************************************************************)
AmountIdempotent ==
    /\ (norm_pc # "idle" /\ ThousandsSeparated(raw_amount))
          => formatted[1] = raw_amount
    /\ norm_pc = "twice" => formatted[2] = formatted[1]

\* a separated amount of four digits has been normalised twice
SeparatedAmountReached ==
    /\ norm_pc = "twice"
    /\ raw_amount = <<"7", ",", "0", "1", "0">>
    /\ formatted = << raw_amount, raw_amount >>

(***************************************************************************)
(* Character classes of the regular expressions of data_processor.py.      *)
(* A token that is none of the ASCII characters, glyphs and full-width     *)
(* signs below is a CJK ideograph of U+4E00..U+9FA5.                       *)
(***************************************************************************)
UpperSeq ==
    <<"A", "B", "C", "D", "E", "F", "G", "H", "I", "J", "K", "L", "M",
      "N", "O", "P", "Q", "R", "S", "T", "U", "V", "W", "X", "Y", "Z">>

LowerSeq ==
    <<"a", "b", "c", "d", "e", "f", "g", "h", "i", "j", "k", "l", "m",
      "n", "o", "p", "q", "r", "s", "t", "u", "v", "w", "x", "y", "z">>

UpperLetters == { UpperSeq[k] : k \in 1..26 }

LowerLetters == { LowerSeq[k] : k \in 1..26 }

\* the separators the allow-list of clean_text names: - . , : / ( )
Separators == {"-", ".", ",", ":", "/", "(", ")"}

\* characters outside every class a regular expression of the module names:
\* ASCII punctuation, the two check glyphs, the full-width colon U+FF1A
OtherSigns == {"!", "_", "{", "}", "[", "]", "[x]", "[ ]", "fcolon"}

IsCJK(c) ==
    c \notin UpperLetters \cup LowerLetters \cup Digits \cup Separators
                 \cup Whitespace \cup OtherSigns

\* [A-Za-z0-9]
IsAlnum(c) == c \in UpperLetters \cup LowerLetters \cup Digits

\* str.upper() of one character
UpperChar(c) ==
    IF c \in LowerLetters
        THEN UpperSeq[CHOOSE k \in 1..26 : LowerSeq[k] = c]
        ELSE c

Upper(s) == [k \in 1..Len(s) |-> UpperChar(s[k])]

\* re.sub(r'[^A-Za-z0-9]', '', s): the letters and digits of s, in order
KeepAlnum(s) == SelectSeq(s, IsAlnum)

(***************************************************************************)
(* DataProcessor.format_policy_number and format_id_number.                *)
(***************************************************************************)
\* lines 34-57
format_policy_number(policy_number) ==
    IF policy_number = <<>> THEN <<>>
    ELSE LET cleaned == Upper(KeepAlnum(policy_number)) IN
         IF 8 <= Len(cleaned) /\ Len(cleaned) <= 20
             THEN cleaned ELSE policy_number

AllDigits(s) == \A k \in 1..Len(s) : s[k] \in Digits

\* re.match(r'^[A-Z][0-9]{9}$', cleaned)
IsIdShape(cleaned) ==
    /\ Len(cleaned) = 10
    /\ cleaned[1] \in UpperLetters
    /\ AllDigits(Tail(cleaned))

\* lines 147-170
format_id_number(id_number) ==
    IF id_number = <<>> THEN <<>>
    ELSE LET cleaned == Upper(KeepAlnum(id_number)) IN
         IF IsIdShape(cleaned) THEN cleaned ELSE id_number

(***************************************************************************)
(* DataProcessor.clean_text.                                               *)
(***************************************************************************)
RECURSIVE CollapseWs(_)
\* re.sub(r'\s+', ' ', text): every run of white space becomes one blank
CollapseWs(s) ==
    IF s = <<>> THEN <<>>
    ELSE IF Head(s) \in Whitespace
        THEN <<" ">> \o CollapseWs(LStrip(s))
        ELSE <<Head(s)>> \o CollapseWs(Tail(s))

\* the class kept by line 30: CJK, letters, digits, \s and - . , : / ( )
IsAllowed(c) ==
    \/ IsCJK(c)
    \/ IsAlnum(c)
    \/ c \in Whitespace
    \/ c \in Separators

\* lines 13-32
clean_text(text) ==
    IF text = <<>> THEN <<>>
    ELSE SelectSeq(CollapseWs(Strip(text)), IsAllowed)

(***************************************************************************)
(* DataProcessor.format_date.  The three patterns of date_patterns are     *)
(* matched as re.search does: at the leftmost position that admits a       *)
(* match, every \d{1,2} taking two digits when it can.                     *)
(***************************************************************************)
DateSeps == {"-", "/"}

IsDigitAt(s, k) == k >= 1 /\ k <= Len(s) /\ s[k] \in Digits

IsSepAt(s, k) == k >= 1 /\ k <= Len(s) /\ s[k] \in DateSeps

DigitsAt(s, k, n) == \A i \in k..(k + n - 1) : IsDigitAt(s, i)

\* the width (\d{1,2}) takes at k when [-/] must follow it; 0: no match
WidthBeforeSep(s, k) ==
    IF DigitsAt(s, k, 2) /\ IsSepAt(s, k + 2) THEN 2
    ELSE IF IsDigitAt(s, k) /\ IsSepAt(s, k + 1) THEN 1
    ELSE 0

\* the width (\d{1,2}) takes at k at the end of a pattern; 0: no match
WidthAtEnd(s, k) ==
    IF DigitsAt(s, k, 2) THEN 2 ELSE IF IsDigitAt(s, k) THEN 1 ELSE 0

\* the groups of pattern p matched at position k of s, <<>> when it does
\* not match there
MatchAt(p, s, k) ==
    CASE p = 1 ->   \* (\d{4})[-/](\d{1,2})[-/](\d{1,2})
            IF ~(DigitsAt(s, k, 4) /\ IsSepAt(s, k + 4)) THEN <<>>
            ELSE LET mw == WidthBeforeSep(s, k + 5)
                     ds == k + 5 + mw + 1
                     dw == WidthAtEnd(s, ds)
                 IN  IF mw = 0 \/ dw = 0 THEN <<>>
                     ELSE << SubSeq(s, k, k + 3),
                             SubSeq(s, k + 5, k + 4 + mw),
                             SubSeq(s, ds, ds + dw - 1) >>
      [] p = 2 ->   \* (\d{1,2})[-/](\d{1,2})[-/](\d{4})
            LET w1 == WidthBeforeSep(s, k)
                s2 == k + w1 + 1
                w2 == WidthBeforeSep(s, s2)
                ys == s2 + w2 + 1
            IN  IF w1 = 0 \/ w2 = 0 \/ ~DigitsAt(s, ys, 4) THEN <<>>
                ELSE << SubSeq(s, k, k + w1 - 1),
                        SubSeq(s, s2, s2 + w2 - 1),
                        SubSeq(s, ys, ys + 3) >>
      [] OTHER ->   \* (\d{4})(\d{2})(\d{2})
            IF ~DigitsAt(s, k, 8) THEN <<>>
            ELSE << SubSeq(s, k, k + 3), SubSeq(s, k + 4, k + 5),
                    SubSeq(s, k + 6, k + 7) >>

\* re.search(pattern, date_str).groups(), <<>> when there is no match
Search(p, s) ==
    LET hits == { k \in 1..Len(s) : MatchAt(p, s, k) # <<>> } IN
    IF hits = {} THEN <<>>
    ELSE MatchAt(p, s, CHOOSE k \in hits : \A h \in hits : k <= h)

IsLeap(y) == (y % 4 = 0 /\ y % 100 # 0) \/ y % 400 = 0

DaysInMonth(y, m) ==
    IF m = 2 THEN (IF IsLeap(y) THEN 29 ELSE 28)
    ELSE IF m \in {4, 6, 9, 11} THEN 30 ELSE 31

\* datetime(year, month, day) does not raise ValueError
ValidDate(y, m, d) ==
    /\ y >= 1 /\ y <= 9999
    /\ m >= 1 /\ m <= 12
    /\ d >= 1 /\ d <= DaysInMonth(y, m)

\* month and day left as matched
ZFillNone(s) == s

\* str.zfill(2)
ZFill2(s) == IF Len(s) < 2 THEN <<"0">> \o s ELSE s

\* lines 108-111: [year, month, day] of a match, by the length of group 1
YearMonthDay(g) ==
    IF Len(g[1]) = 4
        THEN [year |-> g[1], month |-> g[2], day |-> g[3]]
        ELSE [year |-> g[3], month |-> g[1], day |-> g[2]]

\* lines 105-118 from pattern p on: the rendering of the first pattern that
\* matches and names a valid date, date_str when none does
RECURSIVE FormatFrom(_, _)
FormatFrom(date_str, p) ==
    IF p > 3 THEN date_str
    ELSE LET g == Search(p, date_str) IN
         IF g = <<>> THEN FormatFrom(date_str, p + 1)
         ELSE LET ymd == YearMonthDay(g) IN
              IF ValidDate(ToInt(ymd.year), ToInt(ymd.month), ToInt(ymd.day))
                  THEN ymd.year \o <<"/">> \o ZFill2(ymd.month)
                           \o <<"/">> \o ZFill2(ymd.day)
                  ELSE FormatFrom(date_str, p + 1)

\* lines 85-120
format_date(date_str) ==
    IF date_str = <<>> THEN <<>> ELSE FormatFrom(date_str, 1)

(***************************************************************************)
(* DataProcessor.process_insurance_data.                                   *)
(***************************************************************************)
\* the keys of field_processors
FormatterFields ==
    {"license_number", "total_premium", "birth_date",
     "policyholder_birth_date", "id_number", "policyholder_id"}

DataFields == FormatterFields \cup {"insured_person", "coverage_items"}

\* field_processors[field] applied to a str
Formatter(field, s) ==
    CASE field = "license_number"                          -> format_policy_number(s)
      [] field = "total_premium"                           -> format_amount(s)
      [] field \in {"birth_date", "policyholder_birth_date"} -> format_date(s)
      [] OTHER                                             -> format_id_number(s)

\* a formatter handed a truthy value that is no str: re.sub and re.search
\* raise TypeError
FormatterRaises(value) == Truthy(value) /\ value.kind # "str"

\* lines 229-234, the entry stored for one key of raw_data
ProcessedField(field, value) ==
    IF field = "coverage_items" THEN value
    ELSE IF field \in FormatterFields
        THEN IF Truthy(value) THEN Str(Formatter(field, value.s)) ELSE Str(<<>>)
    ELSE IF value.kind = "str" /\ value.s # <<>> THEN Str(clean_text(value.s))
    ELSE value

\* lines 206-237: [raised, data]; a key absent from raw_data stays absent
process_insurance_data(raw) ==
    IF \E f \in FormatterFields : raw[f].kind # "absent" /\ FormatterRaises(raw[f])
        THEN [raised |-> TRUE, data |-> NoResult]
        ELSE [raised |-> FALSE,
              data |-> [f \in DataFields |->
                           IF raw[f].kind = "absent" THEN Absent
                           ELSE ProcessedField(f, raw[f])]]

(***************************************************************************)
(* Raw records of the model.  Each group varies some fields over values    *)
(* that exercise one formatter and keeps the others at one ordinary value. *)
(***************************************************************************)
\* U+6C11 U+570B, U+5E74, U+6708, U+65E5: the Republic-calendar signs
MinGuo == <<"min", "guo">>
Nian   == <<"nian">>
Yue    == <<"yue">>
Ri     == <<"ri">>

\* U+4E2D U+5348 12 U+6642: "12 noon"
NoonText == <<"zhong", "wu3", "1", "2", "shi">>

IdInputs ==
    { pre \o d1 \o mid \o d2 \o post :
        pre  \in { <<>>, <<"A">>, <<"a">>, <<"A", "B">>, <<" ", "b">> },
        d1   \in { <<"1", "2", "3", "4">>, <<"1", "2", "3", "4", "5">> },
        mid  \in { <<>>, <<"-">>, <<" ">> },
        d2   \in { <<"5", "6", "7">>, <<"5", "6", "7", "8">>,
                   <<"5", "6", "7", "8", "9">> },
        post \in { <<>>, <<" ">>, <<"wang">> } }

RepublicDates ==
    { MinGuo \o y \o Nian \o m \o Yue \o d \o Ri \o rest :
        y    \in { <<"1", "1", "4">>, <<"9", "9">> },
        m    \in { <<"5">>, <<"0", "5">>, <<"1", "2">> },
        d    \in { <<"2">>, <<"2", "0">> },
        rest \in { <<>>, NoonText } }

WesternDates ==
    { pre \o a \o <<sep>> \o b \o <<sep>> \o c \o post :
        pre  \in { <<>>, <<"x">> },
        a    \in { <<"2", "0", "2", "4">>, <<"2", "0", "2", "3">>, <<"1", "2">>,
                   <<"2">> },
        sep  \in DateSeps,
        b    \in { <<"2">>, <<"0", "2">>, <<"1", "3">> },
        c    \in { <<"9">>, <<"2", "9">>, <<"3", "0">>, <<"2", "0", "2", "4">> },
        post \in { <<>>, <<"1">> } }

CompactDates ==
    { <<"2", "0", "2", "4", "0", "2", "2", "9">>,
      <<"2", "0", "2", "3", "0", "2", "2", "9">>,
      <<"2", "0", "2", "4", "1", "3", "0", "1">>,
      <<"x", "2", "0", "2", "4", "1", "2", "3", "1", "5">> }

\* 2023-13-1 5-6-2024: the first pattern matches a date that does not exist
InvalidThenValid ==
    <<"2", "0", "2", "3", "-", "1", "3", "-", "1", " ",
      "5", "-", "6", "-", "2", "0", "2", "4">>

\* 2024-12-11-2025: the first and the second pattern match valid dates
TwoValid ==
    <<"2", "0", "2", "4", "-", "1", "2", "-", "1", "1", "-",
      "2", "0", "2", "5">>

DateInputs ==
    RepublicDates \cup WesternDates \cup CompactDates
        \cup { <<>>, InvalidThenValid, TwoValid }

TextChars == {"a", " ", "\t", "!", "wang"}

TextInputs == SeqUpTo(TextChars, MaxTextLen)

\* what a JSON value of a scalar key can be
MixedValues ==
    { Absent, None, Str(<<>>), Str(<<" ">>), Str(Sentinel), Num(0), Num(5),
      Str(<<"wang">>) }

DataGroups == {"id", "date", "text", "mixed"}

DataFieldValues(group, field) ==
    CASE group = "id" /\ field = "id_number"       -> { Str(s) : s \in IdInputs }
      [] group = "date" /\ field = "birth_date"    -> { Str(s) : s \in DateInputs }
      [] group = "text" /\ field = "insured_person" -> { Str(s) : s \in TextInputs }
      [] group = "mixed" /\ field \in {"id_number", "total_premium",
                                       "insured_person"} -> MixedValues
      [] group = "mixed" /\ field = "coverage_items" ->
            { Absent, List(<<>>), Str(<<"wang">>) }
      [] field = "license_number"  -> { Str(<<"A", "B", "C", "-", "1", "2", "3", "4">>) }
      [] field = "total_premium"   -> { Str(<<"2", "7", ",", "6", "4", "4">>) }
      [] field \in {"birth_date", "policyholder_birth_date"} ->
            { Str(<<"1", "9", "9", "0", "-", "0", "1", "-", "0", "1">>) }
      [] field \in {"id_number", "policyholder_id"} ->
            { Str(<<"A", "1", "2", "3", "4", "5", "6", "7", "8", "9">>) }
      [] field = "insured_person"  -> { Str(<<"wang">>) }
      [] OTHER                     -> { List(<<>>) }

DataRecords(group) ==
    [license_number          : DataFieldValues(group, "license_number"),
     total_premium           : DataFieldValues(group, "total_premium"),
     birth_date              : DataFieldValues(group, "birth_date"),
     policyholder_birth_date : DataFieldValues(group, "policyholder_birth_date"),
     id_number               : DataFieldValues(group, "id_number"),
     policyholder_id         : DataFieldValues(group, "policyholder_id"),
     insured_person          : DataFieldValues(group, "insured_person"),
     coverage_items          : DataFieldValues(group, "coverage_items")]

InitData ==
    /\ \E group \in DataGroups : raw_data \in DataRecords(group)
    /\ insurance_data = NoResult
    /\ data_outcome = "idle"
    /\ IdleFill
    /\ IdleOcr
    /\ IdleNorm
    /\ IdleRender
    /\ IdleFont
    /\ IdleClean

\* one call of process_insurance_data on the record
ProcessInsuranceData ==
    /\ data_outcome = "idle"
    /\ LET r == process_insurance_data(raw_data) IN
          /\ insurance_data' = r.data
          /\ data_outcome' = IF r.raised THEN "raised" ELSE "returned"
    /\ UNCHANGED <<raw_data, fillVars, ocrVars, normVars, renderVars,
                   fontVars, cleanVars>>

NextData == ProcessInsuranceData

SpecData == InitData /\ [][NextData]_vars

(***************************************************************************)
(* Claims about process_insurance_data and its formatters.                 *)
(***************************************************************************)
DataReturned == data_outcome = "returned"

\* one letter and nine digits, or an organisation number of eight digits
RecognizedIdShape(cleaned) ==
    \/ /\ Len(cleaned) = 10
       /\ cleaned[1] \in UpperLetters
       /\ AllDigits(Tail(cleaned))
    \/ /\ Len(cleaned) = 8
       /\ AllDigits(cleaned)

(***************************************************************************)
(* C11  Identifier normalisation: the identifier with its non-alphanumeric *)
(* characters removed and its letters in upper case is returned when it is *)
(* one letter followed by nine digits or an organisation number of eight   *)
(* digits; in every other case the raw string is returned unchanged.       *)
(***************************************************************************)
IdentifierShapesAccepted ==
    ( DataReturned /\ raw_data.id_number.kind = "str" )
    => LET raw     == raw_data.id_number.s
           cleaned == Upper(KeepAlnum(raw))
       IN  insurance_data.id_number
               = Str(IF RecognizedIdShape(cleaned) THEN cleaned ELSE raw)

\* the length of the digit run of s that starts at k
RECURSIVE DigitRun(_, _)
DigitRun(s, k) == IF IsDigitAt(s, k) THEN 1 + DigitRun(s, k + 1) ELSE 0

\* the parts of a date in the Republic long form, [ok |-> FALSE] otherwise
RepublicParts(s) ==
    LET yw == DigitRun(s, 3)
        ms == 3 + yw + 1
        mw == DigitRun(s, ms)
        ds == ms + mw + 1
        dw == DigitRun(s, ds)
    IN  IF /\ StartsWith(s, MinGuo)
           /\ yw >= 1
           /\ Len(s) >= ds + dw
           /\ s[3 + yw] = "nian"
           /\ mw \in {1, 2}
           /\ s[ms + mw] = "yue"
           /\ dw \in {1, 2}
           /\ s[ds + dw] = "ri"
        THEN [ok |-> TRUE,
              year  |-> SubSeq(s, 3, 2 + yw),
              month |-> SubSeq(s, ms, ms + mw - 1),
              day   |-> SubSeq(s, ds, ds + dw - 1),
              rest  |-> SubSeq(s, ds + dw + 1, Len(s))]
        ELSE [ok |-> FALSE]

(***************************************************************************)
(* C12  Republic-calendar dates: a birth date in the Republic long form    *)
(* comes back in the same form, month and day padded to two digits and the *)
(* time text after the day kept.                                           *)
(***************************************************************************)
RepublicDatePadded ==
    ( DataReturned /\ raw_data.birth_date.kind = "str"
      /\ RepublicParts(raw_data.birth_date.s).ok )
    => LET p == RepublicParts(raw_data.birth_date.s) IN
       insurance_data.birth_date
           = Str(MinGuo \o p.year \o Nian \o ZFill2(p.month) \o Yue
                     \o ZFill2(p.day) \o Ri \o p.rest)

\* letters, digits, CJK ideographs, the blank and the separators
InAllowList(c) ==
    IsCJK(c) \/ IsAlnum(c) \/ c = " " \/ c \in Separators

(***************************************************************************)
(* C13  Free-text normalisation: the cleaned text of a free-text field has *)
(* no two white-space characters in a row and only characters of the       *)
(* allow-list.                                                             *)
(***************************************************************************)
CleanTextCollapsed ==
    ( DataReturned /\ raw_data.insured_person.kind = "str"
      /\ raw_data.insured_person.s # <<>> )
    => LET out == insurance_data.insured_person.s IN
       /\ \A k \in 1..(Len(out) - 1) :
             ~(out[k] \in Whitespace /\ out[k + 1] \in Whitespace)
       /\ \A k \in 1..Len(out) : InAllowList(out[k])

ScalarFields == DataFields \ {"coverage_items"}

(***************************************************************************)
(* C14  Unfilled sentinel: no scalar field of the returned map is an empty *)
(* or white-space-only string; such a field carries the sentinel.          *)
(***************************************************************************)
NoBlankScalar ==
    DataReturned
    => \A f \in ScalarFields :
          /\ ( insurance_data[f].kind = "str" => Strip(insurance_data[f].s) # <<>> )
          /\ ( ( raw_data[f].kind = "str" /\ Strip(raw_data[f].s) = <<>> )
               => insurance_data[f] = Str(Sentinel) )

(***************************************************************************)
(* C15  Normalisation and derivation never raise: neither                  *)
(* process_insurance_data nor process_ocr_data ends in an exception, for   *)
(* any record.                                                             *)
(***************************************************************************)
NeverRaises == data_outcome # "raised" /\ ocr_outcome # "raised"

(***************************************************************************)
(* C16  Missing keys fail closed: when the key of the insured person or of *)
(* the vehicle type is absent from the record, process_ocr_data returns    *)
(* and the entry of the context is the unfilled sentinel.                  *)
(***************************************************************************)
MissingKeySentinel ==
    \A f \in {"insured_person", "vehicle_type"} :
        ( ocr_outcome # "idle" /\ ocr_data[f].kind = "absent" )
        => ( Returned /\ processed_data[f] = Str(Sentinel) )

(***************************************************************************)
(* Further claims about marker resolution.                                 *)
(***************************************************************************)
\* the field map without its k-th entry
WithoutEntry(fm, k) == SubSeq(fm, 1, k - 1) \o SubSeq(fm, k + 1, Len(fm))

\* the tag is in the text of no paragraph of the document, at any depth
OccursNowhere(doc, tag) ==
    \A p \in 1..Len(AllParas(doc)) : ~Contains(Join(AllParas(doc)[p]), tag)

\* a run text of the form {{...}}
IsMarkerText(t) ==
    /\ Len(t) >= 4
    /\ SubSeq(t, 1, 2) = <<"{", "{">>
    /\ SubSeq(t, Len(t) - 1, Len(t)) = <<"}", "}">>

(***************************************************************************)
(* C17  Unknown and unused markers: after fill_fields, a marker of the     *)
(* field map that occurs nowhere in the template has changed nothing (the  *)
(* document is the one the field map without it gives), and every run      *)
(* whose text is a {{...}} marker that is no key of the field map has the  *)
(* text it had in the template.                                            *)
(***************************************************************************)
UnknownMarkersUntouched ==
    (document # NoDocument /\ passes >= 1) =>
        /\ \A k \in 1..Len(field_map) :
              OccursNowhere(template, field_map[k][1])
              => document = FillFieldsTimes(template, WithoutEntry(field_map, k),
                                            passes)
        /\ \A p \in 1..Len(AllParas(template)) :
              \A r \in 1..Len(AllParas(template)[p]) :
                 LET t == AllParas(template)[p][r] IN
                 ( IsMarkerText(t) /\ t \notin Tags(field_map) )
                 => AllParas(document)[p][r] = t

\* a known marker was resolved next to an unknown one, a third being unused
UnknownMarkerKept ==
    /\ document # NoDocument
    /\ passes >= 1
    /\ LayoutOf(template) = "body"
    /\ field_map = FieldMapNo(1)
    /\ FocusPara(template) = << TagA, TagC >>
    /\ FocusPara(document) = << ValueA, TagC >>

(***************************************************************************)
(* C18  Traversal coverage: the paragraph under study is resolved the same *)
(* way wherever it lies, in the body, in a table cell or in a table nested *)
(* inside a cell.                                                          *)
(***************************************************************************)
TraversalCoverage ==
    (document # NoDocument /\ passes >= 1 /\ LayoutOf(template) # "merged") =>
        FocusPara(document)
            = FocusPara(FillFieldsTimes(BuildDoc("body", FocusPara(template)),
                                        field_map, passes))

(***************************************************************************)
(* WordTemplateProcessor and the files it reads and writes.  A path is a   *)
(* sequence of tokens: a directory, a stem, '_fixed', a time stamp and an  *)
(* extension are one token each, so that str.replace('.docx', ...) acts on *)
(* the '.docx' tokens of the path.                                         *)
(***************************************************************************)
RECURSIVE ReplaceToken(_, _, _)
\* path.replace(old, new) for a token old and a token sequence new
ReplaceToken(path, old, new) ==
    IF path = <<>> THEN <<>>
    ELSE (IF Head(path) = old THEN new ELSE <<Head(path)>>)
             \o ReplaceToken(Tail(path), old, new)

\* template_path.replace('.docx', '_fixed.docx')
FixedPath(path) == ReplaceToken(path, ".docx", <<"_fixed", ".docx">>)

\* output_path.replace('.docx', '.pdf')
PdfPath(path) == ReplaceToken(path, ".docx", <<".pdf">>)

\* template paths a processor is built with; the second is the default one
AssetPaths ==
    { <<"assets/templates/", "T", ".docx">>,
      <<"assets/templates/", "T", "_fixed", ".docx">>,
      <<"assets/templates/", "T", ".DOCX">> }

\* a template file; empty_markers: some table cell paragraph holds '{{}}'
TemplateFile(empty_markers) == [kind |-> "template", empty_markers |-> empty_markers]

\* a rendered document written by a render slot, before or after the font pass
ReportFile(slot, fonts) == [kind |-> "report", slot |-> slot, fonts |-> fonts]

PdfFile(slot) == [kind |-> "pdf", slot |-> slot]

\* a file that is not a document: Document() and DocxTemplate.render() raise
Unparsable == [kind |-> "unparsable"]

\* os.path.exists(path)
Exists(fs, path) == path \in DOMAIN fs

\* the file at path opens as a document
Opens(fs, path) == Exists(fs, path) /\ fs[path].kind = "template"

\* the file system after the file at path has been removed
Remove(fs, path) == [p \in DOMAIN fs \ {path} |-> fs[p]]

\* the file system after a file has been saved at path
Save(fs, path, content) ==
    [p \in DOMAIN fs \cup {path} |-> IF p = path THEN content ELSE fs[p]]

\* datetime.now().strftime('%Y%m%d_%H%M%S'): the time stamp names the
\* second, the ticks within the second are dropped
Timestamp(now) == ToDigits(now \div TicksPerSecond)

\* f"property_reports/<name>_{timestamp}.docx" of fill_template, and the
\* same path joined by upload_file
ReportPath(now) ==
    <<"property_reports/", "report_">> \o Timestamp(now) \o <<".docx">>

IdleSlot == [pc |-> "idle", kind |-> "none", output_path |-> <<>>]

\* the files on disk when a processor is about to be built: the template
\* asset is a document, is not a document, or is absent
InitRender ==
    /\ asset_path \in AssetPaths
    /\ \/ \E em \in BOOLEAN : files = Save(<<>>, asset_path, TemplateFile(em))
       \/ files = Save(<<>>, asset_path, Unparsable)
       \/ files = <<>>
    /\ built = "new"
    /\ template_path = asset_path
    /\ written = {}
    /\ loaded = FALSE
    /\ loads = 0
    /\ clock = 0
    /\ renders = [slot \in 1..MaxRenders |-> IdleSlot]
    /\ IdleFill
    /\ IdleOcr
    /\ IdleNorm
    /\ IdleData
    /\ IdleFont
    /\ IdleClean

\* __init__ lines 33-39: FileNotFoundError when the template does not exist
BuildProcessor ==
    /\ built = "new"
    /\ built' = IF Exists(files, template_path) THEN "built" ELSE "failed"
    /\ UNCHANGED <<files, written, asset_path, template_path, loaded, loads,
                   clock, renders, fillVars, ocrVars, normVars, dataVars,
                   fontVars, cleanVars>>

\* outside the processor: the file at template_path is deleted, or replaced
\* by something that is not a document
TemplateLost ==
    /\ built = "built"
    /\ Exists(files, template_path)
    /\ files[template_path] # Unparsable
    /\ \E deleted \in BOOLEAN :
          files' = IF deleted THEN Remove(files, template_path)
                              ELSE Save(files, template_path, Unparsable)
    /\ UNCHANGED <<written, asset_path, built, template_path, loaded, loads,
                   clock, renders, fillVars, ocrVars, normVars, dataVars,
                   fontVars, cleanVars>>

\* fix_template_issues(template_path): [path, files, written]
fix_template_issues(path, fs, wr) ==
    IF ~Exists(fs, path) \/ fs[path].kind # "template"
        THEN [path |-> path, files |-> fs, written |-> wr]
        ELSE LET fixed_template_path == FixedPath(path) IN
             [path    |-> IF fs[path].empty_markers
                              THEN fixed_template_path ELSE path,
              files   |-> Save(fs, fixed_template_path, TemplateFile(FALSE)),
              written |-> wr \cup {fixed_template_path}]

\* the state change of load_template
DoLoadTemplate ==
    LET r == fix_template_issues(template_path, files, written) IN
    /\ template_path' = r.path
    /\ files' = r.files
    /\ written' = r.written
    /\ loaded' = Opens(r.files, r.path)
    /\ loads' = loads + 1

\* load_template
LoadProcessorTemplate ==
    /\ built = "built"
    /\ loads < MaxLoads
    /\ DoLoadTemplate
    /\ UNCHANGED <<asset_path, built, clock, renders, fillVars, ocrVars, normVars, dataVars,
                   fontVars, cleanVars>>

\* get_template_info: loads the template when none is loaded, writes nothing
\* otherwise
GetTemplateInfo ==
    /\ built = "built"
    /\ IF ~loaded
          THEN loads < MaxLoads /\ DoLoadTemplate
          ELSE UNCHANGED <<template_path, files, written, loaded, loads>>
    /\ UNCHANGED <<asset_path, built, clock, renders, fillVars, ocrVars, normVars, dataVars,
                   fontVars, cleanVars>>

\* time passes
Tick ==
    /\ clock < MaxClock
    /\ clock' = clock + 1
    /\ UNCHANGED <<files, written, asset_path, built, template_path, loaded, loads,
                   renders, fillVars, ocrVars, normVars, dataVars,
                   fontVars, cleanVars>>

\* a render begins and its output path is named from the clock: by
\* upload_file (app.py lines 142-144), which hands the path to a thread, or
\* by fill_template called without output_path (lines 332-334)
StartRender(slot, kind) ==
    /\ built = "built"
    /\ renders[slot].pc = "idle"
    /\ renders' = [renders EXCEPT ![slot] =
                      [pc |-> "named", kind |-> kind,
                       output_path |-> ReportPath(clock)]]
    /\ UNCHANGED <<files, written, asset_path, built, template_path, loaded, loads,
                   clock, fillVars, ocrVars, normVars, dataVars,
                   fontVars, cleanVars>>

\* a fill_template that saves the document before it opens the template
RenderSaveUnopened(slot) ==
    /\ renders[slot].pc = "named"
    /\ files' = Save(files, renders[slot].output_path, ReportFile(slot, FALSE))
    /\ written' = written \cup {renders[slot].output_path}
    /\ renders' = [renders EXCEPT ![slot].pc =
                      IF Opens(files, template_path) THEN "saved" ELSE "failed"]
    /\ UNCHANGED <<asset_path, built, template_path, loaded, loads, clock,
                   fillVars, ocrVars, normVars, dataVars,
                   fontVars, cleanVars>>

\* fill_template lines 340-342: render the template, save the document; a
\* template that cannot be opened ends the call (return None)
RenderSave(slot) ==
    /\ renders[slot].pc = "named"
    /\ IF Opens(files, template_path)
          THEN /\ files' = Save(files, renders[slot].output_path,
                                ReportFile(slot, FALSE))
               /\ written' = written \cup {renders[slot].output_path}
               /\ renders' = [renders EXCEPT ![slot].pc = "saved"]
          ELSE /\ renders' = [renders EXCEPT ![slot].pc = "failed"]
               /\ UNCHANGED <<files, written>>
    /\ UNCHANGED <<asset_path, built, template_path, loaded, loads, clock,
                   fillVars, ocrVars, normVars, dataVars,
                   fontVars, cleanVars>>

\* set_checkbox_font(output_path): the document at the path is opened, its
\* fonts are set and it is saved at the same path
SetCheckboxFont(slot) ==
    /\ renders[slot].pc = "saved"
    /\ LET path == renders[slot].output_path IN
          /\ files' = Save(files, path,
                           [kind |-> "report", slot |-> files[path].slot,
                            fonts |-> TRUE])
          /\ written' = written \cup {path}
    /\ renders' = [renders EXCEPT ![slot].pc = "fonted"]
    /\ UNCHANGED <<asset_path, built, template_path, loaded, loads, clock,
                   fillVars, ocrVars, normVars, dataVars,
                   fontVars, cleanVars>>

\* lines 356-365: the PDF is converted, or the conversion fails and the call
\* returns the document alone
ConvertPdf(slot) ==
    /\ renders[slot].pc = "fonted"
    /\ \E converted \in BOOLEAN :
          IF converted
              THEN /\ files' = Save(files, PdfPath(renders[slot].output_path),
                                    PdfFile(slot))
                   /\ written' = written \cup {PdfPath(renders[slot].output_path)}
              ELSE UNCHANGED <<files, written>>
    /\ renders' = [renders EXCEPT ![slot].pc = "done"]
    /\ UNCHANGED <<asset_path, built, template_path, loaded, loads, clock,
                   fillVars, ocrVars, normVars, dataVars,
                   fontVars, cleanVars>>

NextRender ==
    \/ BuildProcessor
    \/ TemplateLost
    \/ LoadProcessorTemplate
    \/ GetTemplateInfo
    \/ Tick
    \/ \E slot \in 1..MaxRenders, kind \in {"upload", "direct"} :
          StartRender(slot, kind)
    \/ \E slot \in 1..MaxRenders : RenderSave(slot)
    \/ \E slot \in 1..MaxRenders : SetCheckboxFont(slot)
    \/ \E slot \in 1..MaxRenders : ConvertPdf(slot)

SpecRender == InitRender /\ [][NextRender]_vars

(***************************************************************************)
(* Claims about the files of a render.                                     *)
(***************************************************************************)
(***************************************************************************)
(* C19  Template asset is read-only: whatever operations are run, the file *)
(* at the path the processor was built with is never written.              *)
(***************************************************************************)
AssetNeverWritten == asset_path \notin written

InFlight(slot) == renders[slot].pc \in {"named", "saved", "fonted"}

(***************************************************************************)
(* C20  Collision-free output paths: two renders under way at the same     *)
(* time never have the same output path.                                   *)
(***************************************************************************)
DistinctOutputPaths ==
    \A s1, s2 \in DOMAIN renders :
        ( s1 # s2 /\ InFlight(s1) /\ InFlight(s2) )
        => renders[s1].output_path # renders[s2].output_path

(***************************************************************************)
(* Claims about template errors.                                           *)
(***************************************************************************)
\* a processor is built: FileNotFoundError exactly when the asset is absent
BuildOutcome ==
    (built = "new" /\ built' # "new")
    => (built' = "failed" <=> ~Exists(files, asset_path))

\* fill_template comes to opening a template that is absent or unparsable:
\* it returns None and the output path holds what it held before the call,
\* no document when none was there
FillOutcome ==
    \A slot \in DOMAIN renders :
        ( /\ renders[slot].pc = "named"
          /\ renders'[slot].pc # "named"
          /\ ~Opens(files, template_path) )
        => /\ renders'[slot].pc = "failed"
           /\ files' = files
           /\ written' = written

(***************************************************************************)
(* C21  Fatal template errors produce no output: building a processor on   *)
(* an absent template asset fails with FileNotFoundError, and a            *)
(* fill_template call that finds the template absent or unparsable returns *)
(* None and writes no document at its output path.                         *)
(***************************************************************************)
FatalTemplateErrors == [][BuildOutcome /\ FillOutcome]_vars

FailedRenderNoDocument ==
    \E slot \in DOMAIN renders :
        /\ renders[slot].pc = "failed"
        /\ ~Exists(files, renders[slot].output_path)

(***************************************************************************)
(* WordTemplateProcessor.set_checkbox_font (word_template_processor.py,    *)
(* lines 273-312).  A run is [text, bold]; a document is its body          *)
(* paragraphs and the paragraphs of the cells of its tables.               *)
(***************************************************************************)
Run(text, bold) == [text |-> text, bold |-> bold]

SelectedGlyph == <<"[x]">>

UnselectedGlyph == <<"[ ]">>

\* lines 279-292: the bold attribute of one run after the pass
FontRun(run, extra) ==
    LET glyph == IF Contains(run.text, SelectedGlyph) THEN TRUE
                 ELSE IF Contains(run.text, UnselectedGlyph) THEN FALSE
                 ELSE run.bold
    IN  IF \E k \in DOMAIN extra :
               Truthy(Str(extra[k])) /\ Contains(run.text, extra[k])
            THEN FALSE
            ELSE glyph

FontPara(para, extra) ==
    [k \in DOMAIN para |-> Run(para[k].text, FontRun(para[k], extra))]

FontParas(paras, extra) == [k \in DOMAIN paras |-> FontPara(paras[k], extra)]

\* the document saved by set_checkbox_font(docx_path, extra_fields)
set_checkbox_font(doc, extra) ==
    [paragraphs |-> FontParas(doc.paragraphs, extra),
     cells      |-> FontParas(doc.cells, extra)]

\* run texts of a rendered document: selection tokens alone and with the
\* label that follows them, labels, other text
FontTexts ==
    { <<"[x]", " ">>, <<"[ ]">>, <<"[x]", " ", "nan">>,
      <<"[x]", " ", "nan", " ", "[ ]", "nv">>, <<"nan">> }

FontRuns == { Run(t, b) : t \in FontTexts, b \in BOOLEAN }

MaxFontRuns == 2  \* runs of the paragraph handed to the font pass

\* policyholder_gender, relationship, gender as process_ocr_data leaves them
ExtraValues == { <<"nan">>, <<"[ ]">>, <<"ben", "ren">>, <<>> }

InitFont ==
    /\ \E para \in SeqUpTo(FontRuns, MaxFontRuns), in_cell \in BOOLEAN :
          report = IF in_cell
                       THEN [paragraphs |-> <<>>, cells |-> <<para>>]
                       ELSE [paragraphs |-> <<para>>, cells |-> <<>>]
    /\ extra_fields \in [1..3 -> ExtraValues]
    /\ styled = NoResult
    /\ IdleFill
    /\ IdleOcr
    /\ IdleNorm
    /\ IdleData
    /\ IdleRender
    /\ IdleClean

\* one call of set_checkbox_font on the document
FontPass ==
    /\ styled = NoResult
    /\ styled' = set_checkbox_font(report, extra_fields)
    /\ UNCHANGED <<report, extra_fields, fillVars, ocrVars, normVars, dataVars,
                   renderVars, cleanVars>>

NextFont == FontPass

SpecFont == InitFont /\ [][NextFont]_vars

StyledRuns == Flatten(styled.paragraphs) \o Flatten(styled.cells)

ReportRuns == Flatten(report.paragraphs) \o Flatten(report.cells)

(***************************************************************************)
(* C22  Glyph post-pass: after set_checkbox_font every run whose text      *)
(* holds the selected glyph is bold and every run that holds the           *)
(* unselected glyph and no selected glyph is not bold, whatever the        *)
(* extra_fields values are; the run texts are those of the document        *)
(* before the pass.                                                        *)
(***************************************************************************)
GlyphPostPass ==
    styled # NoResult =>
        /\ Len(StyledRuns) = Len(ReportRuns)
        /\ \A k \in DOMAIN StyledRuns :
              /\ StyledRuns[k].text = ReportRuns[k].text
              /\ Contains(StyledRuns[k].text, SelectedGlyph)
                     => StyledRuns[k].bold
              /\ ( Contains(StyledRuns[k].text, UnselectedGlyph)
                   /\ ~Contains(StyledRuns[k].text, SelectedGlyph) )
                     => ~StyledRuns[k].bold

(***************************************************************************)
(* The effect of a match, stated on the runs the call was given.           *)
(***************************************************************************)
\* the last run of the match the scan finds when it stands at run i: the
\* first j from i on with runs i..j spelling the tag, 0 when there is none
MatchEnd(runs, tag, i) ==
    LET ends == { j \in i..Len(runs) : Join(SubSeq(runs, i, j)) = tag } IN
    IF ends = {} THEN 0 ELSE CHOOSE j \in ends : \A k \in ends : j <= k

RECURSIVE MatchesFrom(_, _, _)
\* the matches <<i, j>> of a scan that starts at run i and goes on behind
\* the last run of each match
MatchesFrom(runs, tag, i) ==
    IF i > Len(runs) THEN {}
    ELSE IF MatchEnd(runs, tag, i) # 0
        THEN { <<i, MatchEnd(runs, tag, i)>> }
                 \cup MatchesFrom(runs, tag, MatchEnd(runs, tag, i) + 1)
        ELSE MatchesFrom(runs, tag, i + 1)

\* every match has put the value in its first run and '' in its other runs,
\* every run outside the matches is as it was
MatchEffect(runs, tag, value) ==
    LET matches == MatchesFrom(runs, tag, 1) IN
    [k \in 1..Len(runs) |->
        IF \E m \in matches : k = m[1] THEN value
        ELSE IF \E m \in matches : m[1] < k /\ k <= m[2] THEN <<>>
        ELSE runs[k]]

RECURSIVE MatchEffects(_, _, _)
\* the effect of the calls for the entries k.. of the field map, in order
MatchEffects(runs, fm, k) ==
    IF k > Len(fm) THEN runs
    ELSE MatchEffects(MatchEffect(runs, fm[k][1], fm[k][2]), fm, k + 1)

(***************************************************************************)
(* C23  Effect of one match: where the scan of _replace_tag_with_value     *)
(* stands at run i and runs i..j-1 spell the marker, run i gets the value, *)
(* runs i+1..j-1 get '', all other runs keep their text, the paragraph     *)
(* keeps its runs in number and order, and the scan goes on at run j, so   *)
(* that no run belongs to two matches.                                     *)
(***************************************************************************)
OneMatchEffect ==
    ( /\ document # NoDocument
      /\ passes = 1
      /\ LayoutOf(template) \in {"body", "cell"} )
    => /\ Len(FocusPara(document)) = Len(FocusPara(template))
       /\ FocusPara(document) = MatchEffects(FocusPara(template), field_map, 1)

\* a marker cut into two runs and the same marker in the next run
AdjacentMatchesResolved ==
    /\ document # NoDocument
    /\ passes = 1
    /\ LayoutOf(template) = "body"
    /\ FocusPara(template) = << <<"{", "{">>, <<"a", "}", "}">>, TagA >>
    /\ FocusPara(document) = << ValueA, <<>>, ValueA >>

(***************************************************************************)
(* Claims about the coverage lookups, stated on the record handed in.      *)
(***************************************************************************)
\* the items of the record's coverage_items; a missing key gives []
CoverageItems ==
    IF ocr_data.coverage_items.kind = "list"
        THEN ocr_data.coverage_items.items ELSE <<>>

CoverageIsList == ocr_data.coverage_items.kind \in {"list", "absent"}

Least(S) == CHOOSE k \in S : \A j \in S : k <= j

\* amount of the first top-level item whose type name holds the substring
TopLevelAmount(items, substring) ==
    LET hits == { k \in DOMAIN items : Contains(items[k].type, substring) } IN
    IF hits = {} THEN <<>> ELSE items[Least(hits)].amount

\* parents whose type name holds the parent substring and that own a
\* sub-item whose type name holds the sub-item substring
PersonalParents(items) ==
    { p \in DOMAIN items :
        /\ Contains(items[p].type, ThirdParty)
        /\ \E q \in DOMAIN items[p].sub_items :
              Contains(items[p].sub_items[q].type, PerPerson) }

\* amount of the first such sub-item of the first such parent
PersonalAmount(items) ==
    IF PersonalParents(items) = {} THEN <<>>
    ELSE TopLevelAmount(items[Least(PersonalParents(items))].sub_items,
                        PerPerson)

(***************************************************************************)
(* C24  Second lookup of the derived amount: with the optional period      *)
(* present and no amount from the vehicle-damage lookup (no item matches,  *)
(* or the first matching item has an empty amount),                        *)
(* optional_insurance_amount is the amount of the per-person sub-item      *)
(* under the third-party item, and so is empty only when that lookup is    *)
(* empty too.                                                              *)
(***************************************************************************)
SecondLookup ==
    ( /\ Returned
      /\ Present(ocr_data.optional_insurance_period)
      /\ CoverageIsList
      /\ TopLevelAmount(CoverageItems, CarDamage) = <<>> )
    => /\ processed_data.optional_insurance_amount = PersonalAmount(CoverageItems)
       /\ lookups = 2

\* a vehicle-damage item without amount, followed by the third-party item
SecondLookupReached ==
    /\ Returned
    /\ ocr_data.optional_insurance_period = Str(PeriodText)
    /\ ocr_data.coverage_items =
           List(<< CarItem(<<>>), ThirdPartyItem(<<PersonSub>>) >>)
    /\ processed_data.optional_insurance_amount = PersonAmount

(***************************************************************************)
(* C25  Coverage lookups: find_car_damage_amount gives the amount of the   *)
(* first top-level item whose type name holds the vehicle-damage           *)
(* substring; find_third_party_personal_amount gives the amount of the     *)
(* first sub-item holding the per-person substring under a top-level item  *)
(* holding the third-party substring; both give '' when nothing matches    *)
(* and on an empty list; a sub-item is never taken for a top-level item    *)
(* nor a top-level item for a sub-item.                                    *)
(***************************************************************************)
CoverageLookups ==
    ( ocr_outcome # "idle" /\ CoverageIsList ) =>
        /\ find_car_damage_amount(CoverageItems)
               = TopLevelAmount(CoverageItems, CarDamage)
        /\ find_third_party_personal_amount(CoverageItems)
               = PersonalAmount(CoverageItems)
        /\ (Returned /\ lookups = 1) =>
               processed_data.optional_insurance_amount
                   = TopLevelAmount(CoverageItems, CarDamage)
        /\ (Returned /\ lookups = 2) =>
               processed_data.optional_insurance_amount
                   = PersonalAmount(CoverageItems)

\* a vehicle-damage entry that is a sub-item and a per-person entry that is
\* a top-level item give no amount
MisplacedItemsUnmatched ==
    /\ Returned
    /\ lookups = 2
    /\ ocr_data.coverage_items \in
           { List(<< Item(Theft, PersonAmount, <<>>),
                     ThirdPartyItem(<< Item(CarDamage, CarAmount, <<>>) >>) >>),
             List(<< Item(PerPerson, PersonAmount, <<>>) >>) }
    /\ processed_data.optional_insurance_amount = <<>>

(***************************************************************************)
(* C28  No period, no amount: when the compulsory and the optional period  *)
(* are each missing, null, empty or the sentinel, no lookup is made and    *)
(* optional_insurance_amount is '' whatever coverage_items is;             *)
(* compulsory_insurance_amount is '' for every record.                     *)
(***************************************************************************)
NoPeriodNoAmount ==
    /\ ( /\ ocr_outcome # "idle"
         /\ Blank(ocr_data.compulsory_insurance_period)
         /\ Blank(ocr_data.optional_insurance_period) )
       => /\ lookups = 0
          /\ Returned => processed_data.optional_insurance_amount = <<>>
    /\ Returned => processed_data.compulsory_insurance_amount = <<>>

\* no period, over a coverage list that holds both amounts
NoPeriodReached ==
    /\ Returned
    /\ ocr_data.compulsory_insurance_period = Absent
    /\ ocr_data.optional_insurance_period = Str(Sentinel)
    /\ ocr_data.coverage_items =
           List(<< CarItem(CarAmount), ThirdPartyItem(<<PersonSub, AccidentSub>>) >>)
    /\ processed_data.optional_insurance_amount = <<>>
    /\ lookups = 0

(***************************************************************************)
(* Claims about format_date.                                               *)
(***************************************************************************)
\* the patterns of format_date that match s with groups naming a valid date
ValidPatterns(s) ==
    { p \in 1..3 :
        /\ Search(p, s) # <<>>
        /\ LET ymd == YearMonthDay(Search(p, s)) IN
           ValidDate(ToInt(ymd.year), ToInt(ymd.month), ToInt(ymd.day)) }

\* one digit is given a leading zero
TwoDigits(s) == IF Len(s) = 1 THEN <<"0">> \o s ELSE s

\* YYYY/MM/DD of the first pattern that matches and names a valid date,
\* else the string itself
FirstValidPattern(s) ==
    IF ValidPatterns(s) = {} THEN s
    ELSE LET ymd == YearMonthDay(Search(Least(ValidPatterns(s)), s)) IN
         ymd.year \o <<"/">> \o TwoDigits(ymd.month) \o <<"/">> \o TwoDigits(ymd.day)

\* s reads YYYY/MM/DD and names a day of the calendar
IsCalendarDate(s) ==
    /\ Len(s) = 10
    /\ \A k \in {1, 2, 3, 4, 6, 7, 9, 10} : s[k] \in Digits
    /\ s[5] = "/"
    /\ s[8] = "/"
    /\ ValidDate(ToInt(SubSeq(s, 1, 4)), ToInt(SubSeq(s, 6, 7)),
                 ToInt(SubSeq(s, 9, 10)))

(***************************************************************************)
(* C26  Date normalisation order: format_date returns the YYYY/MM/DD       *)
(* rendering, month and day zero-padded, of the first of its patterns, in  *)
(* their fixed order, that matches and names a calendar-valid date, and    *)
(* the input unchanged when no pattern does; so the result is the input or *)
(* a calendar-valid date, and formatting the result again returns it.      *)
(***************************************************************************)
DateNormalizationOrder ==
    ( DataReturned /\ raw_data.birth_date.kind = "str" ) =>
        LET x == raw_data.birth_date.s
            y == insurance_data.birth_date.s
        IN  /\ insurance_data.birth_date.kind = "str"
            /\ y = FirstValidPattern(x)
            /\ y = x \/ IsCalendarDate(y)
            /\ format_date(y) = y

\* the first pattern matches a date that does not exist, the second one a
\* date further on in the string
SecondPatternReached ==
    /\ DataReturned
    /\ raw_data.birth_date = Str(InvalidThenValid)
    /\ insurance_data.birth_date =
           Str(<<"2", "0", "2", "4", "/", "0", "5", "/", "0", "6">>)

(***************************************************************************)
(* AutoCleanupManager (auto_cleanup_manager.py).  A file of a managed      *)
(* directory is [dir, age], the age in days since its modification; the    *)
(* rules are config["cleanup_rules"]: directory name -> [enabled,          *)
(* keep_days].                                                             *)
(***************************************************************************)
MaxFiles == 2  \* files in the managed directories

\* the keys of temp_dirs
ManagedDirs ==
    {"ocr_results", "property_reports", "temp_images", "uploads", "pycache"}

Rule(enabled, keep_days) == [enabled |-> enabled, keep_days |-> keep_days]

\* default_config["cleanup_rules"]
default_rules ==
    [d \in ManagedDirs |->
        Rule(TRUE, CASE d = "ocr_results"      -> 3
                     [] d = "property_reports" -> 7
                     [] d = "temp_images"      -> 1
                     [] d = "uploads"          -> 3
                     [] OTHER                  -> 1)]

\* load_config, the cleanup rules: without a file the defaults; with one,
\* config[key].update(value) puts every default rule over the file's rule
\* of the same directory
load_config(file_rules) ==
    IF file_rules = NoResult THEN default_rules
    ELSE [d \in DOMAIN file_rules \cup ManagedDirs |->
             IF d \in ManagedDirs THEN default_rules[d] ELSE file_rules[d]]

\* the cleanup_rules of cleanup_config.json, NoResult: there is no file
ConfigFiles ==
    { NoResult,
      [d \in {"uploads"} |-> Rule(FALSE, 7)],
      [d \in {"temp_images", "archive"} |->
          IF d = "archive" THEN Rule(TRUE, 2) ELSE Rule(TRUE, 4)] }

\* self.config["cleanup_rules"].get(dir_name, {}) with the defaults of
\* rule.get("enabled", True) and rule.get("keep_days", 7)
RuleOf(rules, dir) == IF dir \in DOMAIN rules THEN rules[dir] ELSE Rule(TRUE, 7)

\* a cleanup that leaves out the test days_old < keep_days
CleanupAnyAge(rules, fs, days_old) ==
    { f \in fs : RuleOf(rules, f.dir).enabled /\ f.age > days_old }

\* cleanup_old_files(days_old): the files it removes
cleanup_old_files(rules, fs, days_old) ==
    { f \in fs :
        /\ RuleOf(rules, f.dir).enabled
        /\ ~(days_old < RuleOf(rules, f.dir).keep_days)
        /\ f.age > days_old }

\* normal_cleanup: cleanup_old_files(keep_days) for every enabled rule; a
\* file is removed by the first of the calls that removes it
normal_cleanup(rules, fs) ==
    UNION { cleanup_old_files(rules, fs, rules[d].keep_days) :
                d \in { r \in DOMAIN rules : rules[r].enabled } }

\* ages in days, on both sides of the keep_days of the rules
FileAges == {0, 1, 2, 3, 4, 7, 8}

Files == [dir : ManagedDirs, age : FileAges]

\* the sets of at most MaxFiles files
Stores == { { fs[k] : k \in DOMAIN fs } : fs \in SeqUpTo(Files, MaxFiles) }

Call(name, days_old) == [name |-> name, days_old |-> days_old]

InitClean ==
    /\ \E file_rules \in ConfigFiles : config = load_config(file_rules)
    /\ store \in Stores
    /\ removed = {}
    /\ cleanup = NoResult
    /\ IdleFill
    /\ IdleOcr
    /\ IdleNorm
    /\ IdleData
    /\ IdleRender
    /\ IdleFont

\* cleanup_old_files called directly
CleanupOldFiles(days_old, dry_run) ==
    /\ removed' = IF dry_run THEN {}
                  ELSE cleanup_old_files(config, store, days_old)
    /\ store' = store \ removed'
    /\ cleanup' = Call("cleanup_old_files", days_old)
    /\ UNCHANGED <<config, fillVars, ocrVars, normVars, dataVars, renderVars,
                   fontVars>>

\* emergency_cleanup: cleanup_old_files(days_old=1)
EmergencyCleanup ==
    /\ removed' = cleanup_old_files(config, store, 1)
    /\ store' = store \ removed'
    /\ cleanup' = Call("emergency_cleanup", 1)
    /\ UNCHANGED <<config, fillVars, ocrVars, normVars, dataVars, renderVars,
                   fontVars>>

\* normal_cleanup
NormalCleanup ==
    /\ removed' = normal_cleanup(config, store)
    /\ store' = store \ removed'
    /\ cleanup' = Call("normal_cleanup", 0)
    /\ UNCHANGED <<config, fillVars, ocrVars, normVars, dataVars, renderVars,
                   fontVars>>

\* idle_cleanup: cleanup_old_files(days_old=3)
IdleCleanup ==
    /\ removed' = cleanup_old_files(config, store, 3)
    /\ store' = store \ removed'
    /\ cleanup' = Call("idle_cleanup", 3)
    /\ UNCHANGED <<config, fillVars, ocrVars, normVars, dataVars, renderVars,
                   fontVars>>

NextClean ==
    \/ \E days_old \in {0, 1, 3, 7}, dry_run \in BOOLEAN :
          CleanupOldFiles(days_old, dry_run)
    \/ EmergencyCleanup
    \/ NormalCleanup
    \/ IdleCleanup

SpecClean == InitClean /\ [][NextClean]_vars

(***************************************************************************)
(* C27  Emergency cleanup: when emergency_cleanup has run, no file older   *)
(* than one day is left in a managed directory whose rule is enabled.      *)
(***************************************************************************)
EmergencyRemovesAll ==
    ( cleanup # NoResult /\ cleanup.name = "emergency_cleanup" ) =>
        \A f \in store : RuleOf(config, f.dir).enabled => f.age <= 1

\* rule sets a manager can be asked about: the defaults with one directory
\* disabled or given another keep_days
RuleSets ==
    { default_rules } \cup
    { [default_rules EXCEPT ![d] = Rule(en, kd)] :
          d \in ManagedDirs, en \in BOOLEAN, kd \in {1, 3, 7} }

\* every file of fs_removed is of an enabled directory and at least as old
\* as the keep_days of its directory
AboveFloor(rules, fs_removed) ==
    \A f \in fs_removed :
        /\ RuleOf(rules, f.dir).enabled
        /\ f.age >= RuleOf(rules, f.dir).keep_days

SecondPass == passes >= 1 /\ passes' = passes + 1

Chars(s) == { s[k] : k \in DOMAIN s }

\* every value of the field map is non-empty and has no character in common
\* with the markers of the map
ValuesApartFromMarkers(fm) ==
    \A k \in DOMAIN fm :
        /\ fm[k][2] # <<>>
        /\ \A j \in DOMAIN fm : Chars(fm[k][2]) \cap Chars(fm[j][1]) = {}

====
